---- MODULE Spec2Model ----
(***************************************************************************)
(* A model of the dyon standard intrinsics (src/dyon_std/mod.rs): the      *)
(* copy-on-write array mutators, dynamic dispatch through a module handle  *)
(* (call / call_ret), joining a background task, and polling an inbound    *)
(* channel.                                                                *)
(***************************************************************************)
EXTENDS Integers, Sequences, FiniteSets, TLC

\* ------------------------------------------------------------------ bounds
\* Array storages (Arc<Vec<Variable>>) one runtime keeps alive at once.
MaxHeap == 2
\* Longest array a mutator is allowed to build.
MaxLen == 2
\* Messages the channel buffers.
MaxQueue == 2

VARIABLES
    stack,       \* rt.stack of every runtime: [Threads -> Seq(Variable)]
    heap,        \* the array storages: [Ids -> Seq(Variable)], <<>> when free
    status,      \* per runtime: "run", "err" (a handler returned Err), "panic",
                 \* "deadlock", "join" (blocked in JoinHandle::join)
    err,         \* per runtime: the Err a handler returned, with rt.arg_err_index
    call_stack,  \* rt.call_stack of every runtime: the frames of dispatched callees
    pend,        \* per runtime: the dispatch handler that is about to lock its handle
    guard,       \* per mutex: the runtime holding its MutexGuard, 0 when free
    poisoned,    \* per mutex: a holder panicked
    task,        \* per background task: its state and what it produced
    valid,       \* per background task: the join handle was not taken yet
    joining,     \* per runtime: the task whose JoinHandle it is joining, 0 for none
    queue,       \* the messages buffered in the channel
    senders,     \* the number of Sender ends alive
    module       \* rt.module of runtime 1: its external prelude and functions

vars == <<stack, heap, status, err, call_stack, pend, guard, poisoned,
          task, valid, joining, queue, senders, module>>

Threads == {1, 2}
\* Two runtimes share the address space.
NumIds == 4 * MaxHeap
Ids == 1..NumIds

\* ------------------------------------------------------------------ values
\* Variable: a tag and an integer payload.  f64: the number; arr: the id of
\* the shared storage (the Arc); ref: the stack index; text: the string;
\* obj: the id of the RustObject (Arc<Mutex<..>>).
F64(n) == [t |-> "f64", v |-> n]
Arr(id) == [t |-> "arr", v |-> id]
Ref(ind) == [t |-> "ref", v |-> ind]
Text(str) == [t |-> "text", v |-> str]
RustObject(h) == [t |-> "obj", v |-> h]

\* rt.resolve: a stack reference reads the slot it names, anything else itself.
resolve(stk, v) == IF v.t = "ref" THEN stk[v.v] ELSE v

\* `index as usize`: the saturating float-to-unsigned cast.
as_usize(x) == IF x < 0 THEN 0 ELSE x

\* ------------------------------------------------------------------ storage
\* Number of handles to storage id among the values of seq.
CountIn(seq, id) == Cardinality({i \in DOMAIN seq : seq[i] = Arr(id)})

ArrIds(seq) == {seq[i].v : i \in {j \in DOMAIN seq : seq[j].t = "arr"}}

RECURSIVE ReachFrom(_, _)
ReachFrom(S, hp) ==
    LET N == S \cup UNION {ArrIds(hp[s]) : s \in S}
    IN IF N = S THEN S ELSE ReachFrom(N, hp)

\* The storages kept alive by the holders in roots.
Reach(roots, hp) == ReachFrom(ArrIds(roots), hp)

RECURSIVE SumCount(_, _, _, _)
SumCount(n, live, hp, id) ==
    IF n = 0 THEN 0
    ELSE (IF n \in live THEN CountIn(hp[n], id) ELSE 0) + SumCount(n - 1, live, hp, id)

\* Arc::strong_count: the handles held by roots and by the elements of live storages.
StrongCount(roots, hp, id) ==
    CountIn(roots, id) + SumCount(NumIds, Reach(roots, hp), hp, id)

Min(S) == CHOOSE x \in S : \A y \in S : x <= y

FreeIds(roots, hp) == Ids \ Reach(roots, hp)

\* Dropping the last handle frees the storage.
Collect(roots, hp) ==
    LET live == Reach(roots, hp)
    IN [i \in Ids |-> IF i \in live THEN hp[i] ELSE <<>>]

\* Arc::make_mut with no uniqueness test: always writes in place.
make_mut_in_place(roots, hp, id) == [id |-> id, heap |-> hp]

\* Arc::make_mut on the handle to storage id: the storage itself when this is
\* the only handle, else a fresh storage holding clones of the elements.
make_mut(roots, hp, id) ==
    IF StrongCount(roots, hp, id) = 1
    THEN [id |-> id, heap |-> hp]
    ELSE LET new == Min(FreeIds(roots, hp))
         IN [id |-> new, heap |-> [hp EXCEPT ![new] = hp[id]]]

CanMakeMut(roots, hp, id) ==
    StrongCount(roots, hp, id) = 1 \/ FreeIds(roots, hp) # {}

\* Number of storages a deep clone of val allocates.
RECURSIVE DeepSize(_, _)
DeepSize(val, hp) ==
    IF val.t # "arr" THEN 0
    ELSE LET RECURSIVE Sum(_)
             Sum(i) == IF i = 0 THEN 0 ELSE DeepSize(hp[val.v][i], hp) + Sum(i - 1)
         IN 1 + Sum(Len(hp[val.v]))

\* Variable::deep_clone: nested arrays are copied into fresh storages, stack
\* references are copied as references.  used: the ids that may not be taken.
\* Yields the clone, the heap holding it, and the ids then in use.
RECURSIVE deep_clone(_, _, _, _)
deep_clone(val, stk, hp, used) ==
    IF val.t # "arr" THEN [val |-> val, heap |-> hp, used |-> used]
    ELSE LET src == hp[val.v]
             RECURSIVE Elems(_)
             \* the first i elements cloned, left to right
             Elems(i) ==
                 IF i = 0 THEN [vals |-> <<>>, heap |-> hp, used |-> used]
                 ELSE LET p == Elems(i - 1)
                          c == deep_clone(src[i], stk, p.heap, p.used)
                      IN [vals |-> Append(p.vals, c.val), heap |-> c.heap, used |-> c.used]
             e == Elems(Len(src))
             new == Min(Ids \ e.used)
         IN [val |-> Arr(new), heap |-> [e.heap EXCEPT ![new] = e.vals],
             used |-> e.used \cup {new}]

\* The value read through val: its elements in order, nested arrays followed.
RECURSIVE DeepRead(_, _)
DeepRead(val, hp) ==
    IF val.t # "arr" THEN [t |-> val.t, v |-> val.v, e |-> <<>>]
    ELSE [t |-> "arr", v |-> 0,
          e |-> [i \in DOMAIN hp[val.v] |-> DeepRead(hp[val.v][i], hp)]]

\* ------------------------------------------------------------------ outcomes
\* What a handler leaves: the stack, the heap, Err's message ("" for Ok(())),
\* rt.arg_err_index (-1 for None) and whether it panicked.
Outcome(stk, hp, msg, aei, flt) ==
    [stack |-> stk, heap |-> hp, err |-> msg, aei |-> aei, fault |-> flt,
     name |-> "", a |-> 0, b |-> 0]

Done(stk, ext, hp) == Outcome(stk, Collect(stk \o ext, hp), "", -1, "")
Fail(stk, ext, hp, msg, aei) == Outcome(stk, Collect(stk \o ext, hp), msg, aei, "")
Panic(stk, ext, hp) == Outcome(stk, Collect(stk \o ext, hp), "", -1, "panic")

ExpectedRefToArray == "Expected reference to array"
IndexOutOfBounds == "Index out of bounds"
ExpectedNonEmpty == "Expected non-empty array"
\* rt.expected_arg(_, x, "number")
ExpectedNumber == "Expected number"

\* if let Variable::Ref(ind) = v { if let Variable::Array(..) = rt.stack[ind]
IsArrayRef(stk, v) == v.t = "ref" /\ stk[v.v].t = "arr"

\* Arc::make_mut(arr) on the array in slot ind, then the write: the slot's
\* storage holds elems afterwards.  tmp: the values the handler itself holds.
WriteArr(stk, ext, hp, ind, tmp, elems) ==
    LET m == make_mut(stk \o ext \o tmp, hp, stk[ind].v)
    IN [stack |-> [stk EXCEPT ![ind] = Arr(m.id)],
        heap |-> [m.heap EXCEPT ![m.id] = elems]]

InsertAt(seq, i, x) == SubSeq(seq, 1, i) \o <<x>> \o SubSeq(seq, i + 1, Len(seq))
RemoveAt(seq, i) == SubSeq(seq, 1, i) \o SubSeq(seq, i + 2, Len(seq))
Reverse(seq) == [i \in DOMAIN seq |-> seq[Len(seq) + 1 - i]]
SwapAt(seq, i, j) == [seq EXCEPT ![i + 1] = seq[j + 1], ![j + 1] = seq[i + 1]]

\* ------------------------------------------------------------------ array mutators
\* Each takes the stack after the interpreter's operands were popped, the
\* holders outside this stack (ext), the heap, and the popped operands.

push_ref(stk, ext, hp, v, item) ==
    IF IsArrayRef(stk, v)
    THEN LET w == WriteArr(stk, ext, hp, v.v, <<item>>, Append(hp[stk[v.v].v], item))
         IN Done(w.stack, ext, w.heap)
    ELSE Fail(stk, ext, hp, ExpectedRefToArray, 0)

\* insert_ref that appends the item when the index is above the length and
\* then reports the index.
insert_ref_append_and_fail(stk, ext, hp, v, index, item) ==
    IF resolve(stk, index).t # "f64" THEN Fail(stk, ext, hp, ExpectedNumber, 1)
    ELSE LET i == as_usize(resolve(stk, index).v) IN
         IF v.t # "ref" THEN Fail(stk, ext, hp, ExpectedRefToArray, 0)
         ELSE IF stk[v.v].t # "arr" THEN Fail(stk, ext, hp, ExpectedRefToArray, 0)
         ELSE IF i > Len(hp[stk[v.v].v])
         THEN LET w == WriteArr(stk, ext, hp, v.v, <<item>>, Append(hp[stk[v.v].v], item))
              IN Fail(w.stack, ext, w.heap, IndexOutOfBounds, -1)
         ELSE LET w == WriteArr(stk, ext, hp, v.v, <<item>>,
                                InsertAt(hp[stk[v.v].v], i, item))
              IN Done(w.stack, ext, w.heap)

insert_ref(stk, ext, hp, v, index, item) ==
    IF resolve(stk, index).t # "f64" THEN Fail(stk, ext, hp, ExpectedNumber, 1)
    ELSE LET i == as_usize(resolve(stk, index).v) IN
         IF v.t # "ref" THEN Fail(stk, ext, hp, ExpectedRefToArray, 0)
         ELSE IF stk[v.v].t # "arr" THEN Fail(stk, ext, hp, ExpectedRefToArray, 0)
         ELSE IF i > Len(hp[stk[v.v].v]) THEN Fail(stk, ext, hp, IndexOutOfBounds, -1)
         ELSE LET w == WriteArr(stk, ext, hp, v.v, <<item>>,
                                InsertAt(hp[stk[v.v].v], i, item))
              IN Done(w.stack, ext, w.heap)

push(stk, ext, hp, v, item0) ==
    LET c == deep_clone(resolve(stk, item0), stk, hp,
                        Reach(stk \o ext \o <<item0>>, hp))
        item == c.val
    IN IF IsArrayRef(stk, v)
       THEN LET w == WriteArr(stk, ext, c.heap, v.v, <<item, item0>>,
                              Append(c.heap[stk[v.v].v], item))
            IN Done(w.stack, ext, w.heap)
       ELSE Fail(stk, ext, hp, ExpectedRefToArray, 0)

insert(stk, ext, hp, v, index, item0) ==
    LET c == deep_clone(resolve(stk, item0), stk, hp,
                        Reach(stk \o ext \o <<item0>>, hp))
        item == c.val
    IN IF resolve(stk, index).t # "f64" THEN Fail(stk, ext, hp, ExpectedNumber, 1)
       ELSE LET i == as_usize(resolve(stk, index).v) IN
            IF v.t # "ref" THEN Fail(stk, ext, hp, ExpectedRefToArray, 0)
            ELSE IF stk[v.v].t # "arr" THEN Fail(stk, ext, hp, ExpectedRefToArray, 0)
            ELSE IF i > Len(c.heap[stk[v.v].v]) THEN Fail(stk, ext, hp, IndexOutOfBounds, -1)
            ELSE LET w == WriteArr(stk, ext, c.heap, v.v, <<item, item0>>,
                                   InsertAt(c.heap[stk[v.v].v], i, item))
                 IN Done(w.stack, ext, w.heap)

pop(stk, ext, hp, v) ==
    IF IsArrayRef(stk, v)
    THEN LET old == hp[stk[v.v].v] IN
         IF old = <<>>
         THEN \* Arc::make_mut ran, Vec::pop gave None
              LET w == WriteArr(stk, ext, hp, v.v, <<>>, old)
              IN Fail(w.stack, ext, w.heap, ExpectedNonEmpty, 0)
         ELSE LET w == WriteArr(stk, ext, hp, v.v, <<>>, SubSeq(old, 1, Len(old) - 1))
              IN Done(Append(w.stack, old[Len(old)]), ext, w.heap)
    ELSE Fail(stk, ext, hp, ExpectedRefToArray, 0)

remove(stk, ext, hp, v, index) ==
    IF resolve(stk, index).t # "f64" THEN Fail(stk, ext, hp, ExpectedNumber, 1)
    ELSE LET i == as_usize(resolve(stk, index).v) IN
         IF v.t # "ref" THEN Fail(stk, ext, hp, ExpectedRefToArray, 0)
         ELSE IF stk[v.v].t # "arr" THEN Fail(stk, ext, hp, ExpectedRefToArray, 0)
         ELSE IF i >= Len(hp[stk[v.v].v]) THEN Fail(stk, ext, hp, IndexOutOfBounds, -1)
         ELSE LET old == hp[stk[v.v].v]
                  w == WriteArr(stk, ext, hp, v.v, <<>>, RemoveAt(old, i))
              IN Done(Append(w.stack, old[i + 1]), ext, w.heap)

reverse(stk, ext, hp, v) ==
    IF IsArrayRef(stk, v)
    THEN LET w == WriteArr(stk, ext, hp, v.v, <<>>, Reverse(hp[stk[v.v].v]))
         IN Done(w.stack, ext, w.heap)
    ELSE Fail(stk, ext, hp, ExpectedRefToArray, 0)

clear(stk, ext, hp, v) ==
    IF IsArrayRef(stk, v)
    THEN LET w == WriteArr(stk, ext, hp, v.v, <<>>, <<>>)
         IN Done(w.stack, ext, w.heap)
    ELSE Fail(stk, ext, hp, ExpectedRefToArray, 0)

swap(stk, ext, hp, v, i0, j0) ==
    IF resolve(stk, j0).t # "f64" THEN Fail(stk, ext, hp, ExpectedNumber, 2)
    ELSE IF resolve(stk, i0).t # "f64" THEN Fail(stk, ext, hp, ExpectedNumber, 1)
    ELSE LET i == as_usize(resolve(stk, i0).v)
             j == as_usize(resolve(stk, j0).v)
         IN IF IsArrayRef(stk, v)
            THEN LET old == hp[stk[v.v].v] IN
                 IF i >= Len(old) \/ j >= Len(old)
                 THEN \* Arc::make_mut ran, then slice::swap panicked
                      LET w == WriteArr(stk, ext, hp, v.v, <<>>, old)
                      IN Panic(w.stack, ext, w.heap)
                 ELSE LET w == WriteArr(stk, ext, hp, v.v, <<>>, SwapAt(old, i, j))
                      IN Done(w.stack, ext, w.heap)
            ELSE Fail(stk, ext, hp, ExpectedRefToArray, 0)

\* ------------------------------------------------------------------ runtime
\* An Err with rt.arg_err_index (-1 for None) and what the message formats.
NoErr == [msg |-> "", aei |-> -1, name |-> "", a |-> 0, b |-> 0]
Error(msg, aei, name, a, b) == [msg |-> msg, aei |-> aei, name |-> name, a |-> a, b |-> b]

\* The mutexes: the Module behind a RustObject, another RustObject (not a
\* Module), and the Receiver behind an In handle.
ModuleHandle == 1
OtherHandle == 2
InHandle == 3
Handles == {ModuleHandle, OtherHandle, InHandle}

\* A Module: its external prelude and its loaded functions, both in order.
Module(ext_prelude, functions) == [ext_prelude |-> ext_prelude, functions |-> functions]
NoModule == Module(<<>>, <<>>)

\* No dispatch is under way.
NoPend == [kind |-> "", h |-> 0, name |-> "", pins |-> <<>>, source |-> ""]

\* The values a dispatch handler holds in its locals while the callee runs:
\* the clone of the argument array's Arc and call.args.
RECURSIVE FramePins(_, _)
FramePins(frames, i) ==
    IF i > Len(frames) THEN <<>> ELSE frames[i].pins \o FramePins(frames, i + 1)

AllPins(cs, pd) ==
    FramePins(cs[1], 1) \o pd[1].pins \o FramePins(cs[2], 1) \o pd[2].pins

\* The holders outside runtime t's own stack.
Ext(t) == (IF t = 1 THEN stack[2] ELSE stack[1]) \o AllPins(call_stack, pend)

\* The ids of the array handles in vals, in order, appended to seq when new.
RECURSIVE AppendNew(_, _, _)
AppendNew(seq, vals, i) ==
    IF i > Len(vals) THEN seq
    ELSE LET x == vals[i]
             seen == {seq[k] : k \in DOMAIN seq}
         IN AppendNew(IF x.t = "arr" /\ x.v \notin seen THEN Append(seq, x.v) ELSE seq,
                      vals, i + 1)

\* The live storages in the order a walk from roots meets them.
RECURSIVE WalkOrder(_, _, _)
WalkOrder(seq, hp, i) ==
    IF i > Len(seq) THEN seq
    ELSE WalkOrder(AppendNew(seq, hp[seq[i]], 1), hp, i + 1)

\* Storage addresses are not observable: the live storages are numbered in
\* walk order, so that states differing only in addresses are one state.
Renumber(order, val) ==
    IF val.t = "arr"
    THEN Arr(CHOOSE k \in DOMAIN order : order[k] = val.v)
    ELSE val

RenumberSeq(order, seq) == [i \in DOMAIN seq |-> Renumber(order, seq[i])]

RenumberHeap(order, hp) ==
    [i \in Ids |-> IF i \in DOMAIN order THEN RenumberSeq(order, hp[order[i]]) ELSE <<>>]

RenumberFrames(order, frames) ==
    [i \in DOMAIN frames |-> [frames[i] EXCEPT !.pins = RenumberSeq(order, @)]]

\* The runtime takes a handler's outcome.  Ok(()) goes on with the frames cs,
\* the pending dispatch pd and the guards g.  Err ends the run with the
\* message and a panic unwinds the thread: either way the runtime's stack and
\* frames are dropped and the guards it held are released, poisoned by a
\* panic.  A thread that deadlocks keeps everything it holds.
Settle(t, o, cs, pd, g) ==
    LET hang == o.fault = "deadlock"
        gone == (o.fault # "" \/ o.err # "") /\ ~hang
        stks == [stack EXCEPT ![t] = IF gone THEN <<>> ELSE IF hang THEN @ ELSE o.stack]
        cs1 == [call_stack EXCEPT ![t] = IF gone THEN <<>> ELSE IF hang THEN @ ELSE cs]
        pd1 == [pend EXCEPT ![t] = IF gone THEN NoPend ELSE IF hang THEN @ ELSE pd]
        hp == IF hang THEN heap ELSE o.heap
        order == WalkOrder(AppendNew(<<>>, stks[1] \o stks[2] \o AllPins(cs1, pd1), 1), hp, 1)
    IN /\ stack' = [u \in Threads |-> RenumberSeq(order, stks[u])]
       /\ heap' = RenumberHeap(order, hp)
       /\ call_stack' = [u \in Threads |-> RenumberFrames(order, cs1[u])]
       /\ pend' = [u \in Threads |-> [pd1[u] EXCEPT !.pins = RenumberSeq(order, @)]]
       /\ status' = [status EXCEPT ![t] =
                        IF o.fault # "" THEN o.fault ELSE IF o.err # "" THEN "err" ELSE "run"]
       /\ err' = [err EXCEPT ![t] =
                     IF o.err # "" \/ o.fault # ""
                     THEN Error(o.err, o.aei, o.name, o.a, o.b) ELSE NoErr]
       /\ guard' = [h \in Handles |->
                       IF gone THEN (IF guard[h] = t THEN 0 ELSE guard[h]) ELSE g[h]]
       /\ poisoned' = [h \in Handles |->
                          poisoned[h] \/ (o.fault = "panic" /\ guard[h] = t)]

\* An array intrinsic's outcome: no frame, dispatch or guard changes.
Apply(t, o) ==
    /\ Settle(t, o, call_stack[t], pend[t], guard)
    /\ UNCHANGED <<task, valid, joining, queue, senders, module>>

\* ------------------------------------------------------------------ array runtime
\* Runtime 1 applies the array mutators to its own slots.
A == 1

\* The script has two locals, slots 1 and 2; a third slot is the value a
\* handler pushed, which the interpreter pops before the next statement.
Locals == {1, 2}

\* The operands the interpreter can hand to a mutator.
Flat(val) == val.t = "arr" => \A i \in DOMAIN heap[val.v] : heap[val.v][i].t # "arr"
Targets == {Ref(i) : i \in Locals} \cup {F64(0)}
\* By reference: the value moves into the array as it is.
Items == {F64(2)} \cup {stack[A][i] : i \in {j \in Locals \cap DOMAIN stack[A] : Flat(stack[A][j])}}
\* By value: push and insert resolve and deep-clone, also through a reference.
ValueItems == Items \cup {Ref(1)}
Indices(v) ==
    LET n == IF Len(stack[A]) >= 2 /\ IsArrayRef(stack[A], v) THEN Len(heap[stack[A][v.v].v]) ELSE 0
    IN {F64(i) : i \in (0 - 1)..(n + 1)} \cup {Text("")}

\* Bounds of the exploration: the array a write builds, the storages it takes.
Room(v, n) == IsArrayRef(stack[A], v) => Len(heap[stack[A][v.v].v]) + n <= MaxLen
\* n: the storages a deep clone takes; one more when the write must copy.
Space(v, item, n) ==
    LET roots == stack[A] \o Ext(A) \o <<item>>
        copy == IF IsArrayRef(stack[A], v) /\ StrongCount(roots, heap, stack[A][v.v].v) > 1
                THEN 1 ELSE 0
    IN /\ Flat(resolve(stack[A], item))
       /\ Cardinality(Reach(roots, heap)) + n + copy <= MaxHeap

\* The runtime is between two statements.
Ready(t) == status[t] = "run" /\ Len(stack[t]) = Cardinality(Locals)

DoPush(v, item) ==
    /\ Ready(A) /\ Room(v, 1)
    /\ Space(v, item, DeepSize(resolve(stack[A], item), heap))
    /\ Apply(A, push(stack[A], Ext(A), heap, v, item))

DoPushRef(v, item) ==
    /\ Ready(A) /\ Room(v, 1) /\ Space(v, item, 0)
    /\ Apply(A, push_ref(stack[A], Ext(A), heap, v, item))

DoInsert(v, index, item) ==
    /\ Ready(A) /\ Room(v, 1)
    /\ Space(v, item, DeepSize(resolve(stack[A], item), heap))
    /\ Apply(A, insert(stack[A], Ext(A), heap, v, index, item))

DoInsertRef(v, index, item) ==
    /\ Ready(A) /\ Room(v, 1) /\ Space(v, item, 0)
    /\ Apply(A, insert_ref(stack[A], Ext(A), heap, v, index, item))

DoPop(v) ==
    /\ Ready(A) /\ Space(v, F64(0), 0)
    /\ Apply(A, pop(stack[A], Ext(A), heap, v))

DoRemove(v, index) ==
    /\ Ready(A) /\ Space(v, F64(0), 0)
    /\ Apply(A, remove(stack[A], Ext(A), heap, v, index))

DoReverse(v) ==
    /\ Ready(A) /\ Space(v, F64(0), 0)
    /\ Apply(A, reverse(stack[A], Ext(A), heap, v))

DoClear(v) ==
    /\ Ready(A) /\ Space(v, F64(0), 0)
    /\ Apply(A, clear(stack[A], Ext(A), heap, v))

DoSwap(v, i, j) ==
    /\ Ready(A) /\ Space(v, F64(0), 0)
    /\ Apply(A, swap(stack[A], Ext(A), heap, v, i, j))

\* The interpreter's `b = a` between two array locals: Variable::clone of the
\* value in slot j stored in slot i, so that both share one storage.
Assign(i, j) ==
    /\ Ready(A) /\ i # j
    /\ stack[A][i].t = "arr" /\ stack[A][j].t = "arr"
    /\ Apply(A, Done([stack[A] EXCEPT ![i] = stack[A][j]], Ext(A), heap))

\* The interpreter pops the value a handler pushed.
Drop ==
    /\ status[A] = "run" /\ Len(stack[A]) > Cardinality(Locals)
    /\ Apply(A, Done(SubSeq(stack[A], 1, Len(stack[A]) - 1), Ext(A), heap))

\* No dispatch, no guard held, no task, no message, an empty module.
Quiet ==
    /\ call_stack = [t \in Threads |-> <<>>]
    /\ pend = [t \in Threads |-> NoPend]
    /\ guard = [h \in Handles |-> 0]
    /\ poisoned = [h \in Handles |-> FALSE]
    /\ task = <<>>
    /\ valid = <<>>
    /\ joining = [t \in Threads |-> 0]
    /\ queue = <<>>
    /\ senders = 0
    /\ module = NoModule

InitArr ==
    /\ stack = [t \in Threads |-> IF t = A THEN <<Arr(1), Arr(1)>> ELSE <<>>]
    /\ heap = [i \in Ids |-> IF i = 1 THEN <<F64(1)>> ELSE <<>>]
    /\ status = [t \in Threads |-> "run"]
    /\ err = [t \in Threads |-> NoErr]
    /\ Quiet

NextArr ==
    \/ \E v \in Targets, item \in ValueItems : DoPush(v, item)
    \/ \E v \in Targets, item \in Items : DoPushRef(v, item)
    \/ \E v \in Targets, item \in ValueItems : \E index \in Indices(v) : DoInsert(v, index, item)
    \/ \E v \in Targets, item \in Items : \E index \in Indices(v) : DoInsertRef(v, index, item)
    \/ \E v \in Targets : DoPop(v)
    \/ \E v \in Targets : \E index \in Indices(v) : DoRemove(v, index)
    \/ \E v \in Targets : DoReverse(v)
    \/ \E v \in Targets : DoClear(v)
    \/ \E v \in Targets : \E i \in Indices(v), j \in Indices(v) : DoSwap(v, i, j)
    \/ \E i \in Locals, j \in Locals : Assign(i, j)
    \/ Drop

SpecArr == InitArr /\ [][NextArr]_vars

\* ------------------------------------------------------------------ claims: arrays
ReadSlot(k) == DeepRead(stack[A][k], heap)

\* The slots whose read differs across the step.
Written == {k \in DOMAIN stack[A] \cap DOMAIN stack'[A] :
               DeepRead(stack'[A][k], heap') # ReadSlot(k)}

\* C1: copy-on-write isolation.  A step of a mutating intrinsic (push,
\* push_ref, insert, insert_ref, pop, remove, reverse, clear, swap) changes
\* the read of at most one slot, its target: every other slot, also one that
\* shares the target's storage, reads exactly as it did before.  And a step
\* that makes two slots share one storage (the clone) leaves both reading
\* the same value, which is what the source slot read before.
C1_CopyOnWriteIsolation ==
    [][/\ Cardinality(Written) <= 1
       /\ (/\ Len(stack[A]) >= 2 /\ Len(stack'[A]) >= 2
           /\ stack[A][1] # stack[A][2]
           /\ stack'[A][1] = stack'[A][2])
          => /\ DeepRead(stack'[A][1], heap') = DeepRead(stack'[A][2], heap')
             /\ \E k \in Locals : DeepRead(stack'[A][k], heap') = ReadSlot(k)]_vars

\* Slots 1 and 2 were written apart: slot 2 has its own storage and other
\* contents of the same length, while slot 1 still reads the initial array.
C1_Witness ==
    /\ Len(stack[A]) >= 2
    /\ stack[A][1].t = "arr" /\ stack[A][2].t = "arr"
    /\ stack[A][1].v # stack[A][2].v
    /\ heap[stack[A][1].v] = <<F64(1)>>
    /\ Len(heap[stack[A][2].v]) = MaxLen
    /\ ReadSlot(2) # ReadSlot(1)

\* ------------------------------------------------------------------ module
\* The script behind the module handle (the input of load):
\*   fn leaf(a) -> { return a }
\*   fn borrow(a: 'return) -> { return a }
\*   fn mutate(mut a) { clear(mut a) }
\*   fn boom(mut a) { swap(mut a, 0, 9) }
\*   fn nested(m, xs) { call(m, "leaf", xs) }
\* args: per parameter, whether it carries a lifetime; body: the statements;
\* ret: whether the function returns its first parameter.
Loaded == {"leaf", "borrow", "mutate", "boom", "nested"}

Fn(name) ==
    CASE name = "leaf" -> [args |-> <<FALSE>>, body |-> <<>>, ret |-> TRUE]
      [] name = "borrow" -> [args |-> <<TRUE>>, body |-> <<>>, ret |-> TRUE]
      [] name = "mutate" -> [args |-> <<FALSE>>, body |-> <<"clear">>, ret |-> FALSE]
      [] name = "boom" -> [args |-> <<FALSE>>, body |-> <<"swap">>, ret |-> FALSE]
      [] name = "nested" -> [args |-> <<FALSE, FALSE>>, body |-> <<"call">>, ret |-> FALSE]

\* The names a script can ask for: the loaded functions, an intrinsic, the
\* two kinds of external function, and a name the module does not know.
Names == Loaded \cup {"push", "ext_void", "ext_ret", "nope"}

\* Module::find_function(name, 0): the FnIndex.
find_function(name) ==
    IF name \in Loaded THEN [k |-> "Loaded", f |-> name]
    ELSE IF name = "push" THEN [k |-> "Intrinsic", f |-> name]
    ELSE IF name = "ext_void" THEN [k |-> "ExternalVoid", f |-> name]
    ELSE IF name = "ext_ret" THEN [k |-> "ExternalReturn", f |-> name]
    ELSE [k |-> "None", f |-> name]

ExpectedReference == "Expected reference in argument {}"

\* lifetimechk::check(f, &args): a parameter that carries a lifetime takes a
\* reference.  Yields the diagnostic, NoErr when the check passes.
RECURSIVE lifetimechk_check(_, _, _)
lifetimechk_check(f, args, i) ==
    IF i > Len(f.args) THEN NoErr
    ELSE IF f.args[i] /\ args[i].t # "ref" THEN Error(ExpectedReference, -1, "", i - 1, 0)
    ELSE lifetimechk_check(f, args, i + 1)

\* functions::list_functions(m): one entry per function of the module.
list_functions == <<Text("leaf"), Text("borrow"), Text("mutate"), Text("boom"), Text("nested")>>

\* ------------------------------------------------------------------ dispatch
\* The messages, with {} where the handler formats a value in.
ExpectedArg == "Expected {}"
ExpectedArguments == "Expected {} arguments, found {}"
CouldNotFind == "Could not find function {}"
ExpectedSomeReturn == "Expected some return value {}"
\* The panic of Result::unwrap on the Err of Mutex::lock.
PoisonUnwrap == "called Result::unwrap() on an Err value: PoisonError"

\* A handler's outcome with the Err e, or a panic or hang with that message.
OutErr(stk, hp, e, flt) ==
    [stack |-> stk, heap |-> hp, err |-> e.msg, aei |-> e.aei, fault |-> flt,
     name |-> e.name, a |-> e.a, b |-> e.b]

\* The operands of call and call_ret, validated in the handler's order:
\* _call takes the name, the array, the module; call_ret the array first.
begin(stk, kind, call_module, fn_name, args) ==
    LET name_err == IF resolve(stk, fn_name).t # "text"
                    THEN Error(ExpectedArg, 1, "text", 0, 0) ELSE NoErr
        args_err == IF resolve(stk, args).t # "arr"
                    THEN Error(ExpectedArg, 2, "array", 0, 0) ELSE NoErr
        obj_err == IF resolve(stk, call_module).t # "obj"
                   THEN Error(ExpectedArg, 0, "Module", 0, 0) ELSE NoErr
        first == IF kind = "call" THEN name_err ELSE args_err
        second == IF kind = "call" THEN args_err ELSE name_err
    IN IF first.msg # "" THEN first
       ELSE IF second.msg # "" THEN second
       ELSE obj_err

\* The lookup that reports a wrong argument count as an unknown function.
lookup_by_arity(fn_name, args) ==
    LET f_index == find_function(fn_name)
    IN IF f_index.k = "Loaded" /\ Len(Fn(f_index.f).args) = Len(args)
       THEN lifetimechk_check(Fn(f_index.f), args, 1)
       ELSE Error(CouldNotFind, -1, fn_name, 0, 0)

\* The lookup without the argument count test.
lookup_no_arity(fn_name, args) ==
    LET f_index == find_function(fn_name)
    IN IF f_index.k = "Loaded" THEN NoErr
       ELSE Error(CouldNotFind, -1, fn_name, 0, 0)

\* The lookup that counts the arguments of whatever the name resolves to.
lookup_counts_all(fn_name, args) ==
    LET f_index == find_function(fn_name)
    IN IF f_index.k = "Loaded"
       THEN LET f == Fn(f_index.f)
            IN IF Len(f.args) # Len(args)
               THEN Error(ExpectedArguments, 2, "", Len(f.args), Len(args))
               ELSE LET lt == lifetimechk_check(f, args, 1)
                    IN IF lt.msg # "" THEN [lt EXCEPT !.aei = 2] ELSE NoErr
       ELSE IF f_index.k # "None" /\ Len(args) # 1
       THEN Error(ExpectedArguments, 2, "", 1, Len(args))
       ELSE Error(CouldNotFind, -1, fn_name, 0, 0)

\* The checks under the guard: the function index of the name, then for a
\* loaded function the argument count, then the lifetimes.
lookup(fn_name, args) ==
    LET f_index == find_function(fn_name)
    IN IF f_index.k = "Loaded"
       THEN LET f == Fn(f_index.f)
            IN IF Len(f.args) # Len(args)
               THEN Error(ExpectedArguments, 2, "", Len(f.args), Len(args))
               ELSE LET lt == lifetimechk_check(f, args, 1)
                    IN IF lt.msg # "" THEN [lt EXCEPT !.aei = 2] ELSE NoErr
       ELSE Error(CouldNotFind, -1, fn_name, 0, 0)

\* call.args built from the resolved elements.
call_args_resolved(stk, args) == [i \in DOMAIN args |-> resolve(stk, args[i])]

\* call.args: args.iter().map(|arg| .. arg.clone()), each element as it is.
call_args(stk, args) == [i \in DOMAIN args |-> args[i]]

\* rt.call returned no value.
NoValue == [t |-> "none", v |-> 0]

\* The end of the handler that pushes whatever the callee gave.
finish_push_any(stk, ext, hp, kind, r, fn_name) ==
    Done(IF r = NoValue THEN stk ELSE Append(stk, r), ext, hp)

\* The end of the handler after rt.call returned r: _call drops it, call_ret
\* pushes the value or fails when there is none.
finish(stk, ext, hp, kind, r, fn_name) ==
    IF kind = "call" THEN Done(stk, ext, hp)
    ELSE IF r = NoValue
         THEN OutErr(stk, hp, Error(ExpectedSomeReturn, -1, fn_name, 0, 0), "")
         ELSE Done(Append(stk, r), ext, hp)

\* Mutex::lock().unwrap() on a poisoned mutex panics.
PoisonPanic(stk, hp) == OutErr(stk, hp, Error(PoisonUnwrap, -1, "", 0, 0), "panic")

\* functions__module with the guard of its handle free: the operand is
\* validated, the mutex locked and unwrapped, the object downcast, the list
\* pushed as a new array.
functions__module(stk, ext, hp, m, psn) ==
    LET x == resolve(stk, m)
    IN IF x.t # "obj" THEN OutErr(stk, hp, Error(ExpectedArg, 0, "Module", 0, 0), "")
       ELSE IF psn[x.v] THEN PoisonPanic(stk, hp)
       ELSE IF x.v # ModuleHandle
            THEN OutErr(stk, hp, Error(ExpectedArg, 0, "Module", 0, 0), "")
       ELSE LET new == Min(FreeIds(stk \o ext, hp))
            IN Done(Append(stk, Arr(new)), ext, [hp EXCEPT ![new] = list_functions])

\* ------------------------------------------------------------------ dispatch runtime
\* Each runtime has four locals: 1 the module handle, 2 another RustObject,
\* 3 a value, 4 the argument array; a fifth slot is a pushed result.
CallLocals == 1..4

Others == <<task, valid, joining, queue, senders, module>>

\* The source text a function carries: f.source.
Source(f) == "fn " \o f

\* The call is given no source of its own.
caller_source_none(cs) == ""

\* let source = rt.module.functions[rt.call_stack.last().unwrap().index]
\* .source: the frames of the model are those above the frame of main.
caller_source(cs) == Source(IF cs = <<>> THEN "main" ELSE cs[Len(cs)].f)

\* The runtime is between two statements of its top-level script.
Idle(t) ==
    /\ status[t] = "run" /\ call_stack[t] = <<>> /\ pend[t].kind = ""
    /\ Len(stack[t]) = Cardinality(CallLocals)

\* The handler pops and validates its operands; it then holds the clone of
\* the argument array and is about to lock the handle.  cs: the frames then.
Begin(t, cs, kind, call_module, fn_name, args) ==
    LET e == begin(stack[t], kind, call_module, fn_name, args)
    IN IF e.msg # ""
       THEN Settle(t, OutErr(stack[t], heap, e, ""), cs, NoPend, guard)
       ELSE Settle(t, Done(stack[t], Ext(t), heap), cs,
                   [kind |-> kind, h |-> resolve(stack[t], call_module).v,
                    name |-> resolve(stack[t], fn_name).v,
                    pins |-> <<resolve(stack[t], args)>>,
                    source |-> caller_source(call_stack[t])], guard)

\* A statement call(..) or call_ret(..) of the top-level script.
Enter(t, kind, call_module, fn_name, args) ==
    /\ Idle(t)
    /\ Begin(t, call_stack[t], kind, call_module, fn_name, args)
    /\ UNCHANGED Others

\* Range::empty(offset).
empty(offset) == [offset |-> offset, length |-> 0]

\* rt.call: the call the handler synthesized is executed: the argument
\* expressions are evaluated and pushed, the frame of
\* the callee is pushed.  The handler's locals stay alive behind it.
rt_call(t, p, elems) ==
    [stack |-> stack[t] \o elems,
     frame |-> [f |-> p.name, base |-> Len(stack[t]) + 1, pc |-> 1, kind |-> p.kind,
                h |-> p.h, pins |-> p.pins \o elems,
                custom_source |-> p.source, source_range |-> empty(0)]]

\* obj.lock().unwrap() and what the handler does under the guard, up to the
\* first statement of the callee.  The guard is a temporary of the match
\* scrutinee: it lives until the match ends, that is while rt.call runs.
Lock(t) ==
    /\ status[t] = "run" /\ pend[t].kind # ""
    /\ LET p == pend[t]
           h == p.h
           args == heap[p.pins[1].v]
       IN \/ /\ guard[h] = 0 /\ poisoned[h]
             /\ Settle(t, PoisonPanic(stack[t], heap), call_stack[t], NoPend, guard)
          \/ \* locking a std Mutex the thread already holds: it panics or hangs
             /\ guard[h] = t
             /\ \E flt \in {"panic", "deadlock"} :
                    Settle(t, OutErr(stack[t], heap, NoErr, flt), call_stack[t], p, guard)
          \/ /\ guard[h] = 0 /\ ~poisoned[h]
             /\ IF h # ModuleHandle
                THEN Settle(t, OutErr(stack[t], heap, Error(ExpectedArg, 0, "Module", 0, 0), ""),
                            call_stack[t], NoPend, guard)
                ELSE LET e == lookup(p.name, args)
                         c == rt_call(t, p, call_args(stack[t], args))
                     IN IF e.msg # ""
                        THEN Settle(t, OutErr(stack[t], heap, e, ""), call_stack[t], NoPend, guard)
                        ELSE Settle(t, Done(c.stack, Ext(t), heap),
                                    Append(call_stack[t], c.frame), NoPend,
                                    [guard EXCEPT ![h] = t])
    /\ UNCHANGED Others

Top(t) == call_stack[t][Len(call_stack[t])]

\* The array a callee's `mut a` denotes: the caller's slot when the
\* parameter was bound to a reference, else the parameter's own slot.
Target(t) ==
    IF stack[t][Top(t).base].t = "ref" THEN stack[t][Top(t).base] ELSE Ref(Top(t).base)

\* The callee executes its next statement.
Body(t) ==
    /\ status[t] = "run" /\ call_stack[t] # <<>> /\ pend[t].kind = ""
    /\ Top(t).pc <= Len(Fn(Top(t).f).body)
    /\ LET fr == Top(t)
           cs == [call_stack[t] EXCEPT ![Len(call_stack[t])].pc = @ + 1]
           stmt == Fn(fr.f).body[fr.pc]
       IN CASE stmt = "clear" ->
                   Settle(t, clear(stack[t], Ext(t), heap, Target(t)), cs, NoPend, guard)
            [] stmt = "swap" ->
                   Settle(t, swap(stack[t], Ext(t), heap, Target(t), F64(0), F64(9)),
                          cs, NoPend, guard)
            [] stmt = "call" ->
                   Begin(t, cs, "call", Ref(fr.base), Text("leaf"), Ref(fr.base + 1))
    /\ UNCHANGED Others

\* The callee is through: rt.call pops its frame and locals and returns what
\* it produced, the match ends and drops the guard, the handler finishes.
Return(t) ==
    /\ status[t] = "run" /\ call_stack[t] # <<>> /\ pend[t].kind = ""
    /\ Top(t).pc > Len(Fn(Top(t).f).body)
    /\ LET fr == Top(t)
           r == IF Fn(fr.f).ret THEN resolve(stack[t], stack[t][fr.base]) ELSE NoValue
           stk == SubSeq(stack[t], 1, fr.base - 1)
       IN Settle(t, finish(stk, Ext(t) \o <<r>>, heap, fr.kind, r, fr.f),
                 SubSeq(call_stack[t], 1, Len(call_stack[t]) - 1), NoPend,
                 [guard EXCEPT ![fr.h] = 0])
    /\ UNCHANGED Others

\* A statement functions(m) of the top-level script; Mutex::lock waits for
\* the holder of the guard.
FunctionsModule(t, m) ==
    /\ Idle(t)
    /\ resolve(stack[t], m).t = "obj" => guard[resolve(stack[t], m).v] = 0
    /\ Apply(t, functions__module(stack[t], Ext(t), heap, m, poisoned))

\* The interpreter pops the value a handler pushed.
DropResult(t) ==
    /\ status[t] = "run" /\ call_stack[t] = <<>> /\ pend[t].kind = ""
    /\ Len(stack[t]) > Cardinality(CallLocals)
    /\ Apply(t, Done(SubSeq(stack[t], 1, Len(stack[t]) - 1), Ext(t), heap))

\* The argument arrays runtime 1 starts with: the array of slot 3 by value,
\* a reference to slot 3, and the module handle with the array of slot 3.
ArgShapes == {<<Arr(1)>>, <<Ref(3)>>, <<RustObject(ModuleHandle), Arr(1)>>}

InitCall ==
    /\ \E shape \in ArgShapes :
           heap = [i \in Ids |-> IF i = 1 THEN <<F64(1)>>
                                 ELSE IF i = 2 THEN shape
                                 ELSE IF i = 3 THEN <<F64(1)>> ELSE <<>>]
    /\ stack = [t \in Threads |->
                   IF t = 1
                   THEN <<RustObject(ModuleHandle), RustObject(OtherHandle), Arr(1), Arr(2)>>
                   ELSE <<RustObject(ModuleHandle), RustObject(OtherHandle), F64(0), Arr(3)>>]
    /\ status = [t \in Threads |-> "run"]
    /\ err = [t \in Threads |-> NoErr]
    /\ Quiet

\* What the scripts can ask for: runtime 1 anything, runtime 2 a function of
\* the module.
Kinds == {"call", "call_ret"}
ModuleOperands(t) == IF t = 1 THEN {Ref(1), Ref(2), F64(0)} ELSE {Ref(1)}
NameOperands(t) == IF t = 1 THEN {Text(n) : n \in Names} \cup {F64(0)} ELSE {Text("leaf")}
ArgsOperands(t) == IF t = 1 THEN {Ref(4), F64(0)} ELSE {Ref(4)}

NextCall ==
    \/ \E t \in Threads, kind \in Kinds : \E call_module \in ModuleOperands(t),
          fn_name \in NameOperands(t), args \in ArgsOperands(t) :
              Enter(t, kind, call_module, fn_name, args)
    \/ \E t \in Threads : Lock(t)
    \/ \E t \in Threads : Body(t)
    \/ \E t \in Threads : Return(t)
    \/ \E t \in Threads : \E m \in ModuleOperands(t) : FunctionsModule(t, m)
    \/ \E t \in Threads : DropResult(t)

SpecCall == InitCall /\ [][NextCall]_vars

\* ------------------------------------------------------------------ claims: dispatch
OtherThread(t) == IF t = 1 THEN 2 ELSE 1

\* The step on which runtime t's handler holds the guard of a Module and
\* makes its checks.
AtLookup(t) ==
    /\ status[t] = "run" /\ pend[t].kind # "" /\ pend'[t].kind = ""
    /\ pend[t].h = ModuleHandle /\ guard[ModuleHandle] = 0 /\ ~poisoned[ModuleHandle]

PendArgs(t) == heap[pend[t].pins[1].v]
PendLoaded(t) == find_function(pend[t].name).k = "Loaded"
PendArity(t) == Len(Fn(pend[t].name).args)
LifetimesOk(t) ==
    \A i \in DOMAIN PendArgs(t) : Fn(pend[t].name).args[i] => PendArgs(t)[i].t = "ref"

\* The step pushed a frame on runtime t.
Pushed(t) == Len(call_stack'[t]) > Len(call_stack[t])

\* The step left no trace beyond the failure of runtime t: no frame, the
\* guard free and sound, the other runtime as it was.
NoEffect(t) ==
    /\ call_stack'[t] = <<>>
    /\ guard'[ModuleHandle] = 0 /\ ~poisoned'[ModuleHandle]
    /\ Len(stack'[OtherThread(t)]) = Len(stack[OtherThread(t)])
    /\ \A k \in DOMAIN stack[OtherThread(t)] :
           DeepRead(stack'[OtherThread(t)][k], heap') = DeepRead(stack[OtherThread(t)][k], heap)

FailedWith(t, e) == status'[t] = "err" /\ err'[t] = e /\ NoEffect(t)

\* C2: whenever call or call_ret looks up a name that is a loaded function
\* of the module and the argument array's length differs from the number
\* of its parameters, the handler returns the argument count error (with
\* rt.arg_err_index 2) and pushes no frame: nothing of the callee runs.
C2_ArityMismatch ==
    [][\A t \in Threads :
           (AtLookup(t) /\ PendLoaded(t) /\ PendArity(t) # Len(PendArgs(t)))
           => FailedWith(t, Error(ExpectedArguments, 2, "", PendArity(t), Len(PendArgs(t))))]_vars

\* A dispatch failed on the argument count.
C2_Witness ==
    \E t \in Threads :
        status[t] = "err" /\ err[t].msg = ExpectedArguments /\ err[t].a = 1 /\ err[t].b = 2

\* C3 as claimed: a name that is no function of the given arity fails as not
\* found, then a loaded function whose lifetime check fails gives the
\* check's diagnostic, and only then is the frame pushed.
C3_AsClaimed ==
    [][\A t \in Threads :
           AtLookup(t) =>
               IF ~(PendLoaded(t) /\ PendArity(t) = Len(PendArgs(t)))
               THEN FailedWith(t, Error(CouldNotFind, -1, pend[t].name, 0, 0))
               ELSE IF ~LifetimesOk(t)
               THEN status'[t] = "err" /\ err'[t].msg = ExpectedReference /\ NoEffect(t)
               ELSE Pushed(t)]_vars

\* C3: the checks under the guard come in this order.  A name that is no
\* loaded function fails as not found; a loaded function called with another
\* number of arguments fails with the argument count error; a loaded
\* function whose lifetime check fails gives the check's diagnostic; only
\* then is the frame pushed.  A failing check leaves no trace, and no frame
\* is ever pushed in another way.
C3_CheckOrder ==
    [][\A t \in Threads :
           /\ AtLookup(t) =>
                  IF ~PendLoaded(t)
                  THEN FailedWith(t, Error(CouldNotFind, -1, pend[t].name, 0, 0))
                  ELSE IF PendArity(t) # Len(PendArgs(t))
                  THEN FailedWith(t, Error(ExpectedArguments, 2, "",
                                           PendArity(t), Len(PendArgs(t))))
                  ELSE IF ~LifetimesOk(t)
                  THEN /\ status'[t] = "err" /\ NoEffect(t)
                       /\ err'[t].msg = ExpectedReference /\ err'[t].aei = 2
                  ELSE Pushed(t) /\ status'[t] = "run"
           /\ Pushed(t) =>
                  /\ AtLookup(t) /\ PendLoaded(t)
                  /\ PendArity(t) = Len(PendArgs(t)) /\ LifetimesOk(t)]_vars

\* A dispatch got as far as the lifetime check, which failed.
C3_Witness ==
    \E t \in Threads : status[t] = "err" /\ err[t].msg = ExpectedReference /\ err[t].aei = 2

\* The storages the caller's slots below base reach.
CallerStorage(t, base) == Reach(SubSeq(stack[t], 1, base - 1), heap)

\* C4 as claimed: what a callee received is resolved and deep-cloned: none
\* of its parameters is a stack reference, none shares a storage with the
\* slots of its caller.
C4_AsClaimed ==
    \A t \in Threads : \A i \in DOMAIN call_stack[t] :
        LET fr == call_stack[t][i]
        IN \A k \in fr.base..(fr.base + Len(Fn(fr.f).args) - 1) :
               /\ stack[t][k].t # "ref"
               /\ stack[t][k].t = "arr" => stack[t][k].v \notin CallerStorage(t, fr.base)

\* The step is a statement of runtime t's callee.
BodyStep(t) ==
    /\ status[t] = "run" /\ call_stack[t] # <<>> /\ pend[t].kind = ""
    /\ Top(t).pc <= Len(Fn(Top(t).f).body)
    /\ call_stack'[t] # call_stack[t]

\* C4: each element of the argument array reaches the callee as a clone of
\* the handle it is: a stack reference as that reference, an array as a
\* handle to the storage the caller holds.  A write of the callee to an
\* array it got by value copies the storage first and is not visible in any
\* slot of the caller, its argument array included; a write through a
\* reference it got is made to the caller's slot.
C4_ArgumentsShared ==
    [][\A t \in Threads :
           /\ Pushed(t) =>
                  \A i \in DOMAIN PendArgs(t) :
                      LET got == stack'[t][Len(stack[t]) + i]
                      IN /\ got.t = PendArgs(t)[i].t
                         /\ got.t = "ref" => got = PendArgs(t)[i]
                         /\ got.t = "arr" =>
                                got.v \in Reach(SubSeq(stack'[t], 1, Len(stack[t])), heap')
           /\ (BodyStep(t) /\ status'[t] = "run") =>
                  IF stack[t][Top(t).base].t = "ref"
                  THEN Fn(Top(t).f).body[Top(t).pc] = "clear" =>
                           heap'[stack'[t][stack[t][Top(t).base].v].v] = <<>>
                  ELSE \A k \in 1..(Top(t).base - 1) :
                           DeepRead(stack'[t][k], heap') = DeepRead(stack[t][k], heap)]_vars

\* A callee cleared the array it got by value: it holds an empty copy, the
\* caller's slot and argument array still read the element.
C4_Witness ==
    /\ call_stack[1] # <<>> /\ Len(stack[1]) = 5
    /\ Top(1).f = "mutate" /\ Top(1).pc = 2
    /\ stack[1][5].t = "arr" /\ heap[stack[1][5].v] = <<>>
    /\ heap[stack[1][3].v] = <<F64(1)>>
    /\ heap[stack[1][4].v] = <<stack[1][3]>>

\* The step is the return of runtime t's callee.
ReturnStep(t) ==
    /\ status[t] = "run" /\ call_stack[t] # <<>> /\ pend[t].kind = ""
    /\ Top(t).pc > Len(Fn(Top(t).f).body)
    /\ Len(call_stack'[t]) < Len(call_stack[t])

\* C5: when the callee returns, call leaves the operand stack as it was
\* before the arguments were pushed, with no result on it; call_ret leaves
\* exactly one more value, the one the callee returned, and fails with the
\* missing return value error when the callee returned none.
C5_ResultHandling ==
    [][\A t \in Threads :
           ReturnStep(t) =>
               LET fr == Top(t)
               IN IF fr.kind = "call"
                  THEN status'[t] = "run" /\ Len(stack'[t]) = fr.base - 1
                  ELSE IF Fn(fr.f).ret
                  THEN /\ status'[t] = "run" /\ Len(stack'[t]) = fr.base
                       /\ DeepRead(stack'[t][fr.base], heap')
                              = DeepRead(resolve(stack[t], stack[t][fr.base]), heap)
                  ELSE /\ status'[t] = "err" /\ stack'[t] = <<>>
                       /\ err'[t] = Error(ExpectedSomeReturn, -1, fr.f, 0, 0)]_vars

\* call_ret pushed what leaf returned: the array of slot 3.
C5_Witness ==
    /\ status[1] = "run" /\ call_stack[1] = <<>> /\ Len(stack[1]) = 5
    /\ stack[1][5] = stack[1][3] /\ stack[1][3].t = "arr"

\* C6: the guard of a module handle is held for the lookup only: a handler
\* that is about to lock the handle finds the guard free, also when the
\* handler runs inside a callee dispatched through the same handle or while
\* another runtime's callee runs, and no dispatch deadlocks.
C6_GuardHeldForLookupOnly ==
    \A t \in Threads :
        /\ status[t] # "deadlock"
        /\ (status[t] = "run" /\ pend[t].kind # "") => guard[pend[t].h] = 0

\* C7: no operation that locks the guard of a RustObject crashes on a
\* poisoned guard.
C7_PoisonIsAnError ==
    \A t \in Threads : ~(status[t] = "panic" /\ err[t].msg = PoisonUnwrap)

\* ------------------------------------------------------------------ join
\* Variable::Thread, Variable::Result and the Error it carries.
Thread(h) == [t |-> "thread", v |-> h]
ResultOk(x) == [t |-> "ok", v |-> x]
ResultErr(message) == [t |-> "err", v |-> [message |-> message, trace |-> <<>>]]

Tasks == {1, 2}

\* A background task: running, or finished with Ok(v), with Err(m), or by a panic.
Running == [s |-> "running", v |-> F64(0), m |-> ""]
TaskOk(x) == [s |-> "ok", v |-> x, m |-> ""]
TaskErr(m) == [s |-> "err", v |-> F64(0), m |-> m]
TaskPanicked == [s |-> "panicked", v |-> F64(0), m |-> ""]
Outcomes == {TaskOk(F64(1)), TaskOk(F64(2)), TaskErr("boom"), TaskPanicked}

AlreadyJoined == "AlreadyJoined"
ExpectedThread == "Expected Thread"
DidNotExit == "Thread did not exit successfully"

\* Thread::invalidate_handle(rt, thread): the JoinHandle behind the operand,
\* taken out of it; an operand that is no thread or whose handle was taken
\* gives an Err.
invalidate_handle(stk, vld, thread) ==
    LET x == resolve(stk, thread)
    IN IF x.t # "thread" THEN [ok |-> FALSE, h |-> 0, err |-> ExpectedThread]
       ELSE IF ~vld[x.v] THEN [ok |-> FALSE, h |-> x.v, err |-> AlreadyJoined]
       ELSE [ok |-> TRUE, h |-> x.v, err |-> ""]

\* join that hands out an Ok when the handle could not be taken.
join__thread_ok_on_err(handle_res, tk) ==
    IF handle_res.ok
    THEN CASE tk.s = "ok" -> ResultOk(tk.v)
           [] tk.s = "err" -> ResultErr(Text(tk.m))
           [] tk.s = "panicked" -> ResultErr(Text(DidNotExit))
    ELSE ResultOk(Text(handle_res.err))

\* join that reports a task's own error as an abnormal exit.
join__thread_one_message(handle_res, tk) ==
    IF handle_res.ok
    THEN CASE tk.s = "ok" -> ResultOk(tk.v)
           [] tk.s = "err" -> ResultErr(Text(DidNotExit))
           [] tk.s = "panicked" -> ResultErr(Text(DidNotExit))
    ELSE ResultErr(Text(handle_res.err))

\* The Result join__thread pushes, from what invalidate_handle gave and,
\* when it gave the handle, from what the finished task tk gave to
\* handle.join().
join__thread(handle_res, tk) ==
    IF handle_res.ok
    THEN CASE tk.s = "ok" -> ResultOk(tk.v)
           [] tk.s = "err" -> ResultErr(Text(tk.m))
           [] tk.s = "panicked" -> ResultErr(Text(DidNotExit))
    ELSE ResultErr(Text(handle_res.err))

\* ------------------------------------------------------------------ join runtime
\* Runtime 1 holds the handles of the two tasks in its locals 1 and 2; slot
\* 3 is the operand the interpreter pushed or the Result join pushed.
JoinLocals == {1, 2}
J == 1

NotJoin == <<heap, err, call_stack, pend, guard, poisoned, queue, senders, module>>

\* The interpreter evaluates the operand of join(..).
PushThread(v) ==
    /\ status[J] = "run" /\ Len(stack[J]) = Cardinality(JoinLocals)
    /\ stack' = [stack EXCEPT ![J] = Append(@, v)]
    /\ UNCHANGED <<status, task, valid, joining>>
    /\ UNCHANGED NotJoin

IsOperand(v) == v.t \in {"ref", "f64"}

\* join__thread up to handle.join(): the operand is popped and the handle
\* invalidated; without a handle the handler pushes its Result at once.
JoinBegin ==
    /\ status[J] = "run" /\ Len(stack[J]) > Cardinality(JoinLocals)
    /\ IsOperand(stack[J][Len(stack[J])])
    /\ LET stk == SubSeq(stack[J], 1, Len(stack[J]) - 1)
           handle_res == invalidate_handle(stk, valid, stack[J][Len(stack[J])])
       IN IF handle_res.ok
          THEN /\ stack' = [stack EXCEPT ![J] = stk]
               /\ valid' = [valid EXCEPT ![handle_res.h] = FALSE]
               /\ joining' = [joining EXCEPT ![J] = handle_res.h]
               /\ status' = [status EXCEPT ![J] = "join"]
          ELSE /\ stack' = [stack EXCEPT ![J] = Append(stk, join__thread(handle_res, Running))]
               /\ UNCHANGED <<valid, joining, status>>
    /\ UNCHANGED task
    /\ UNCHANGED NotJoin

\* handle.join() returns when the task has finished.
JoinEnd ==
    /\ status[J] = "join" /\ task[joining[J]].s # "running"
    /\ stack' = [stack EXCEPT ![J] =
                    Append(@, join__thread([ok |-> TRUE, h |-> joining[J], err |-> ""],
                                           task[joining[J]]))]
    /\ status' = [status EXCEPT ![J] = "run"]
    /\ joining' = [joining EXCEPT ![J] = 0]
    /\ UNCHANGED <<task, valid>>
    /\ UNCHANGED NotJoin

\* A task finishes.
TaskFinish(h, out) ==
    /\ task[h].s = "running"
    /\ task' = [task EXCEPT ![h] = out]
    /\ UNCHANGED <<stack, status, valid, joining>>
    /\ UNCHANGED NotJoin

\* The interpreter pops the Result.
DropJoin ==
    /\ status[J] = "run" /\ Len(stack[J]) > Cardinality(JoinLocals)
    /\ ~IsOperand(stack[J][Len(stack[J])])
    /\ stack' = [stack EXCEPT ![J] = SubSeq(@, 1, Len(@) - 1)]
    /\ UNCHANGED <<status, task, valid, joining>>
    /\ UNCHANGED NotJoin

InitJoin ==
    /\ stack = [t \in Threads |-> IF t = J THEN <<Thread(1), Thread(2)>> ELSE <<>>]
    /\ heap = [i \in Ids |-> <<>>]
    /\ status = [t \in Threads |-> "run"]
    /\ err = [t \in Threads |-> NoErr]
    /\ call_stack = [t \in Threads |-> <<>>]
    /\ pend = [t \in Threads |-> NoPend]
    /\ guard = [h \in Handles |-> 0]
    /\ poisoned = [h \in Handles |-> FALSE]
    /\ task = [h \in Tasks |-> Running]
    /\ valid = [h \in Tasks |-> TRUE]
    /\ joining = [t \in Threads |-> 0]
    /\ queue = <<>>
    /\ senders = 0
    /\ module = NoModule

NextJoin ==
    \/ \E v \in {Ref(1), Ref(2), F64(0)} : PushThread(v)
    \/ JoinBegin
    \/ JoinEnd
    \/ \E h \in Tasks, out \in Outcomes : TaskFinish(h, out)
    \/ DropJoin

SpecJoin == InitJoin /\ [][NextJoin]_vars

\* ------------------------------------------------------------------ claims: join
TopOf(stk) == stk[Len(stk)]

\* The step is join__thread taking its operand, which names task h.
JoinOn(h) ==
    /\ status[J] = "run" /\ Len(stack[J]) > Cardinality(JoinLocals)
    /\ IsOperand(TopOf(stack[J])) /\ stack'[J] # stack[J]
    /\ resolve(stack[J], TopOf(stack[J])) = Thread(h)

\* C8: a join handle is single-use.  The join that takes the handle
\* invalidates it, an invalidated handle stays so, and every later join on
\* it pushes at once a failure Result with the AlreadyJoined message: it
\* neither waits for the task nor hands out the task's value again.
C8_HandleSingleUse ==
    [][\A h \in Tasks :
           /\ ~valid[h] => ~valid'[h]
           /\ (JoinOn(h) /\ valid[h]) => ~valid'[h] /\ joining'[J] = h
           /\ (JoinOn(h) /\ ~valid[h]) =>
                  /\ status'[J] = "run" /\ joining'[J] = 0
                  /\ stack'[J] = Append(SubSeq(stack[J], 1, Len(stack[J]) - 1),
                                        ResultErr(Text(AlreadyJoined)))]_vars

\* A second join on a handle was refused after the first gave the task's value.
C8_Witness ==
    /\ ~valid[1] /\ task[1].s = "ok" /\ joining[J] = 0
    /\ Len(stack[J]) > Cardinality(JoinLocals)
    /\ TopOf(stack[J]) = ResultErr(Text(AlreadyJoined))

\* C9: join on a valid handle returns only when the task has finished and
\* pushes exactly one Result: Ok of the task's value when it succeeded, an
\* error with the task's own text and an empty trace when it failed, an
\* error with "Thread did not exit successfully" and an empty trace when it
\* ended abnormally.
C9_JoinResult ==
    [][(status[J] = "join" /\ status'[J] # "join") =>
           LET tk == task[joining[J]]
           IN /\ tk.s # "running" /\ status'[J] = "run"
              /\ Len(stack'[J]) = Len(stack[J]) + 1
              /\ SubSeq(stack'[J], 1, Len(stack[J])) = stack[J]
              /\ tk.s = "ok" => TopOf(stack'[J]) = [t |-> "ok", v |-> tk.v]
              /\ tk.s = "err" =>
                     TopOf(stack'[J]) =
                         [t |-> "err", v |-> [message |-> Text(tk.m), trace |-> <<>>]]
              /\ tk.s = "panicked" =>
                     TopOf(stack'[J]) =
                         [t |-> "err", v |-> [message |-> Text(DidNotExit), trace |-> <<>>]]]_vars

\* A join gave the text of the task's own error.
C9_Witness ==
    /\ status[J] = "run" /\ Len(stack[J]) > Cardinality(JoinLocals)
    /\ \E h \in Tasks : task[h].s = "err" /\ ~valid[h]
    /\ TopOf(stack[J]) = ResultErr(Text("boom"))

\* ------------------------------------------------------------------ channel
\* Variable::In (the Arc<Mutex<Receiver<Variable>>>) and Variable::Option.
In(h) == [t |-> "in", v |-> h]
OptionSome(x) == [t |-> "some", v |-> x]
OptionNone == [t |-> "none", v |-> 0]

CanNotLock == "Can not lock In mutex"

\* wait_next that polls instead of waiting.
recv_try(q, n) ==
    IF q # <<>> THEN [block |-> FALSE, v |-> OptionSome(Head(q)), queue |-> Tail(q)]
    ELSE [block |-> FALSE, v |-> OptionNone, queue |-> q]

\* wait_next under the guard: x.recv() waits while the buffer is empty and a
\* Sender is alive; Ok(x) becomes Some(x), Err (all senders gone, nothing
\* buffered) becomes None.  q: the buffer, n: the senders alive.
recv(q, n) ==
    IF q # <<>> THEN [block |-> FALSE, v |-> OptionSome(Head(q)), queue |-> Tail(q)]
    ELSE IF n = 0 THEN [block |-> FALSE, v |-> OptionNone, queue |-> q]
    ELSE [block |-> TRUE, v |-> OptionNone, queue |-> q]

\* next whose receive leaves the message in the buffer.
try_recv_keep(q, n) ==
    IF q # <<>> THEN [block |-> FALSE, v |-> OptionSome(Head(q)), queue |-> q]
    ELSE [block |-> FALSE, v |-> OptionNone, queue |-> q]

\* next under the guard: x.try_recv() never waits; Ok(x) becomes Some(x), any
\* Err (empty or disconnected) becomes None.
try_recv(q, n) ==
    IF q # <<>> THEN [block |-> FALSE, v |-> OptionSome(Head(q)), queue |-> Tail(q)]
    ELSE [block |-> FALSE, v |-> OptionNone, queue |-> q]

\* ------------------------------------------------------------------ channel runtime
\* Both runtimes hold the In handle in local 1; slot 2 is a pushed Option.
ChanLocals == {1}
Msgs == {F64(1), F64(2)}

NotChan == <<heap, call_stack, pend, task, valid, joining, module>>

\* A handler returned Err: the run ends.
ChanErr(t, e) ==
    /\ stack' = [stack EXCEPT ![t] = <<>>]
    /\ status' = [status EXCEPT ![t] = "err"]
    /\ err' = [err EXCEPT ![t] = e]

\* wait_next and next up to the lock: the operand is validated, the mutex
\* locked (the lock waits for its holder); a poisoned mutex is an Err.
\* op: "wait_next" or "next".
LockIn(t, op, v) ==
    /\ status[t] = "run" /\ Len(stack[t]) = Cardinality(ChanLocals)
    /\ IF resolve(stack[t], v).t # "in"
       THEN ChanErr(t, Error(ExpectedArg, 0, "in", 0, 0)) /\ UNCHANGED guard
       ELSE /\ guard[resolve(stack[t], v).v] = 0
            /\ IF poisoned[resolve(stack[t], v).v]
               THEN ChanErr(t, Error(CanNotLock, -1, "", 0, 0)) /\ UNCHANGED guard
               ELSE /\ guard' = [guard EXCEPT ![resolve(stack[t], v).v] = t]
                    /\ status' = [status EXCEPT ![t] = op]
                    /\ UNCHANGED <<stack, err>>
    /\ UNCHANGED <<poisoned, queue, senders>>
    /\ UNCHANGED NotChan

\* The receive under the guard returns: the Option is pushed, the guard dropped.
Receive(t) ==
    /\ status[t] \in {"wait_next", "next"}
    /\ LET r == IF status[t] = "wait_next" THEN recv(queue, senders)
                ELSE try_recv(queue, senders)
       IN /\ ~r.block
          /\ stack' = [stack EXCEPT ![t] = Append(@, r.v)]
          /\ queue' = r.queue
    /\ status' = [status EXCEPT ![t] = "run"]
    /\ guard' = [guard EXCEPT ![InHandle] = 0]
    /\ UNCHANGED <<err, poisoned, senders>>
    /\ UNCHANGED NotChan

\* A Sender sends.
Send(x) ==
    /\ senders > 0 /\ Len(queue) < MaxQueue
    /\ queue' = Append(queue, x)
    /\ UNCHANGED <<stack, status, err, guard, poisoned, senders>>
    /\ UNCHANGED NotChan

\* A Sender is dropped; the channel is closed when the last one is.
DropSender ==
    /\ senders > 0
    /\ senders' = senders - 1
    /\ UNCHANGED <<stack, status, err, guard, poisoned, queue>>
    /\ UNCHANGED NotChan

\* The interpreter pops the Option.
DropOption(t) ==
    /\ status[t] = "run" /\ Len(stack[t]) > Cardinality(ChanLocals)
    /\ stack' = [stack EXCEPT ![t] = SubSeq(@, 1, Len(@) - 1)]
    /\ UNCHANGED <<status, err, guard, poisoned, queue, senders>>
    /\ UNCHANGED NotChan

InitChan ==
    /\ stack = [t \in Threads |-> <<In(InHandle)>>]
    /\ heap = [i \in Ids |-> <<>>]
    /\ status = [t \in Threads |-> "run"]
    /\ err = [t \in Threads |-> NoErr]
    /\ call_stack = [t \in Threads |-> <<>>]
    /\ pend = [t \in Threads |-> NoPend]
    /\ guard = [h \in Handles |-> 0]
    /\ poisoned = [h \in Handles |-> FALSE]
    /\ task = <<>>
    /\ valid = <<>>
    /\ joining = [t \in Threads |-> 0]
    /\ queue = <<>>
    /\ senders \in {1, 2}
    /\ module = NoModule

NextChan ==
    \/ \E t \in Threads, op \in {"wait_next", "next"}, v \in {Ref(1), F64(0)} : LockIn(t, op, v)
    \/ \E t \in Threads : Receive(t)
    \/ \E x \in Msgs : Send(x)
    \/ DropSender
    \/ \E t \in Threads : DropOption(t)

SpecChan == InitChan /\ [][NextChan]_vars

\* ------------------------------------------------------------------ claims: channel
\* C10: wait_next returns only when a message is buffered, and then pushes
\* present(the oldest message) and takes it from the buffer, or when the
\* channel is closed with nothing buffered, and then pushes absent.  It
\* never fails there, and the messages buffered when the channel is closed
\* are handed out, oldest first, before absent is.
C10_WaitNext ==
    [][\A t \in Threads :
           (status[t] = "wait_next" /\ status'[t] # "wait_next") =>
               /\ status'[t] = "run"
               /\ Len(stack'[t]) = Len(stack[t]) + 1
               /\ IF queue # <<>>
                  THEN /\ stack'[t][Len(stack'[t])] = [t |-> "some", v |-> queue[1]]
                       /\ queue' = SubSeq(queue, 2, Len(queue))
                  ELSE /\ senders = 0
                       /\ stack'[t][Len(stack'[t])] = [t |-> "none", v |-> 0]
                       /\ queue' = queue]_vars

\* wait_next gave absent on the closed and drained channel.
C10_Witness ==
    /\ senders = 0 /\ queue = <<>>
    /\ \E t \in Threads :
           /\ status[t] = "run" /\ Len(stack[t]) > Cardinality(ChanLocals)
           /\ stack[t][Len(stack[t])] = OptionNone
           /\ status[OtherThread(t)] = "wait_next"

\* Runtime t is at a call of next or wait_next: its operand is on the stack
\* and the handler's first step is to lock the In mutex.
AtPoll(t) == status[t] = "run" /\ Len(stack[t]) = Cardinality(ChanLocals)

\* The holder of the In guard waits inside x.recv(): nothing is buffered and
\* a Sender is alive.
HolderWaits ==
    /\ guard[InHandle] # 0
    /\ status[guard[InHandle]] = "wait_next"
    /\ recv(queue, senders).block

\* C11: next never suspends: a runtime that calls next is never kept
\* waiting by a poller that waits inside wait_next on the same handle, and
\* next returns absent when nothing is buffered and present(message) when a
\* message is.
C11_NextNeverSuspends ==
    [][\A t \in Threads :
           /\ AtPoll(t) => ~HolderWaits
           /\ (status[t] = "next" /\ status'[t] # "next") =>
                  /\ status'[t] = "run" /\ Len(stack'[t]) = Len(stack[t]) + 1
                  /\ stack'[t][Len(stack'[t])]
                         = (IF queue = <<>> THEN OptionNone ELSE OptionSome(queue[1]))]_vars

\* The step hands a message to runtime t: a present Option is pushed.
Polled(t) ==
    /\ Len(stack'[t]) = Len(stack[t]) + 1
    /\ stack'[t][Len(stack'[t])].t = "some"

\* C12: a message is handed to one poll only.  The pollers take turns under
\* the guard; a poll that returns present(message) takes that message, the
\* oldest, out of the buffer in the same step, so no other poll finds it,
\* and no other runtime receives anything in that step; a poll that finds
\* the buffer empty returns absent.
C12_OneObserver ==
    [][/\ Cardinality({t \in Threads : status[t] \in {"wait_next", "next"}}) <= 1
       /\ \A t \in Threads :
              /\ status[t] \in {"wait_next", "next"} => guard[InHandle] = t
              /\ Polled(t) =>
                     /\ queue # <<>>
                     /\ stack'[t][Len(stack'[t])] = OptionSome(queue[1])
                     /\ queue' = Tail(queue)
                     /\ stack'[OtherThread(t)] = stack[OtherThread(t)]
              /\ (status[t] = "next" /\ status'[t] = "run" /\ queue = <<>>) =>
                     stack'[t][Len(stack'[t])] = OptionNone]_vars

\* Two messages were sent and polled by two runtimes, one with next while
\* the buffer held both: each got its own message, nothing is left.
C12_Witness ==
    /\ queue = <<>>
    /\ status[1] = "run" /\ status[2] = "run"
    /\ TopOf(stack[1]) = OptionSome(F64(1))
    /\ TopOf(stack[2]) = OptionSome(F64(2))

\* ------------------------------------------------------------------ provenance
\* The secret of a Bool or F64, an Option<Box<Vec<Variable>>>.
None == [some |-> FALSE, chain |-> <<>>]
Some(sec) == [some |-> TRUE, chain |-> sec]

\* Variable::Bool(val, sec) and Variable::F64(val, sec) with the secret; the
\* number is "1" or not a number.
Bool(val, sec) == [t |-> "bool", v |-> val, sec |-> sec]
Num(val, sec) == [t |-> "f64", v |-> val, sec |-> sec]
NaN == "NaN"
is_nan(val) == val = NaN

Empty == "This does not make sense, perhaps an array is empty?"
WrongValue == "Must be true to have meaning, try add or remove !"
NotANumber == "Expected number, found NaN"

\* The array a handler pushes: a fresh storage holding elems.
PushArray(stk, ext, hp, elems) ==
    LET new == Min(FreeIds(stk \o ext, hp))
    IN Done(Append(stk, Arr(new)), ext, [hp EXCEPT ![new] = elems])

\* why that reads the secret of a false boolean too.
why_any_value(stk, ext, hp, v) ==
    LET x == resolve(stk, v)
    IN IF x.t # "bool" THEN OutErr(stk, hp, Error(ExpectedArg, 0, "bool", 0, 0), "")
       ELSE IF x.sec.some THEN PushArray(stk, ext, hp, Reverse(x.sec.chain))
       ELSE Fail(stk, ext, hp, Empty, 0)

\* why that hands out the secret as it is stored.
why_stored_order(stk, ext, hp, v) ==
    LET x == resolve(stk, v)
    IN IF x.t # "bool" THEN OutErr(stk, hp, Error(ExpectedArg, 0, "bool", 0, 0), "")
       ELSE IF ~x.v THEN Fail(stk, ext, hp, WrongValue, 0)
       ELSE IF x.sec.some THEN PushArray(stk, ext, hp, x.sec.chain)
       ELSE Fail(stk, ext, hp, Empty, 0)

\* why: the operand was popped; stk is the stack below it.
why(stk, ext, hp, v) ==
    LET x == resolve(stk, v)
    IN IF x.t # "bool" THEN OutErr(stk, hp, Error(ExpectedArg, 0, "bool", 0, 0), "")
       ELSE IF ~x.v THEN Fail(stk, ext, hp, WrongValue, 0)
       ELSE IF x.sec.some THEN PushArray(stk, ext, hp, Reverse(x.sec.chain))
       ELSE Fail(stk, ext, hp, Empty, 0)

\* where that reads the secret of a NaN too.
where_any_number(stk, ext, hp, v) ==
    LET x == resolve(stk, v)
    IN IF x.t # "f64" THEN OutErr(stk, hp, Error(ExpectedArg, 0, "f64", 0, 0), "")
       ELSE IF x.sec.some THEN PushArray(stk, ext, hp, Reverse(x.sec.chain))
       ELSE Fail(stk, ext, hp, Empty, 0)

\* _where
where(stk, ext, hp, v) ==
    LET x == resolve(stk, v)
    IN IF x.t # "f64" THEN OutErr(stk, hp, Error(ExpectedArg, 0, "f64", 0, 0), "")
       ELSE IF x.sec.some
       THEN IF is_nan(x.v) THEN Fail(stk, ext, hp, NotANumber, 0)
            ELSE PushArray(stk, ext, hp, Reverse(x.sec.chain))
       ELSE Fail(stk, ext, hp, Empty, 0)

\* The secret with one more step: None => vec![why.deep_clone(..)], Some(sec)
\* => sec.clone() with the deep clone pushed.
explained(stk, hp, sec, item) ==
    LET c == deep_clone(item, stk, hp, Reach(stk, hp)).val
    IN IF sec.some THEN Append(sec.chain, c) ELSE <<c>>

\* explain_why that starts the secret anew.
explain_why_anew(stk, ext, hp, val, item) ==
    LET x == resolve(stk, val)
    IN IF x.t # "bool" THEN OutErr(stk, hp, Error(ExpectedArg, 0, "bool", 0, 0), "")
       ELSE Done(Append(stk, Bool(x.v, Some(explained(stk, hp, None, item)))), ext, hp)

\* explain_why that refuses a false boolean.
explain_why_true_only(stk, ext, hp, val, item) ==
    LET x == resolve(stk, val)
    IN IF x.t # "bool" THEN OutErr(stk, hp, Error(ExpectedArg, 0, "bool", 0, 0), "")
       ELSE IF ~x.v THEN Fail(stk, ext, hp, WrongValue, 0)
       ELSE Done(Append(stk, Bool(x.v, Some(explained(stk, hp, x.sec, item)))), ext, hp)

\* explain_why: both operands were popped.
explain_why(stk, ext, hp, val, item) ==
    LET x == resolve(stk, val)
    IN IF x.t # "bool" THEN OutErr(stk, hp, Error(ExpectedArg, 0, "bool", 0, 0), "")
       ELSE Done(Append(stk, Bool(x.v, Some(explained(stk, hp, x.sec, item)))), ext, hp)

\* explain_where; its type error names "bool" as the expected type.
explain_where(stk, ext, hp, val, item) ==
    LET x == resolve(stk, val)
    IN IF x.t # "f64" THEN OutErr(stk, hp, Error(ExpectedArg, 0, "bool", 0, 0), "")
       ELSE Done(Append(stk, Num(x.v, Some(explained(stk, hp, x.sec, item)))), ext, hp)

\* ------------------------------------------------------------------ provenance runtime
\* Runtime 1 holds the value in local 1 and an array of explanations in
\* local 2; a third slot is what a handler pushed.
MaxChain == 2

Receivers == {Bool(TRUE, None), Bool(FALSE, None), Num("1", None), Num(NaN, None), Text("a")}

\* The explanations the script can attach: the elements of local 2.
Explanations ==
    IF Len(stack[A]) >= 2
    THEN {heap[stack[A][2].v][i] : i \in DOMAIN heap[stack[A][2].v]}
    ELSE {}

\* The secret of local 1.
Secret == IF stack[A][1].t \in {"bool", "f64"} THEN stack[A][1].sec ELSE None

AtStatement == status[A] = "run" /\ Len(stack[A]) = Cardinality(Locals)

DoExplainWhy(item) ==
    /\ AtStatement /\ Len(Secret.chain) < MaxChain
    /\ Apply(A, explain_why(stack[A], Ext(A), heap, Ref(1), item))

DoExplainWhere(item) ==
    /\ AtStatement /\ Len(Secret.chain) < MaxChain
    /\ Apply(A, explain_where(stack[A], Ext(A), heap, Ref(1), item))

DoWhy ==
    /\ AtStatement
    /\ Apply(A, why(stack[A], Ext(A), heap, Ref(1)))

DoWhere ==
    /\ AtStatement
    /\ Apply(A, where(stack[A], Ext(A), heap, Ref(1)))

\* The script assigns the pushed boolean or number to local 1.
Store ==
    /\ status[A] = "run" /\ Len(stack[A]) > Cardinality(Locals)
    /\ stack[A][3].t \in {"bool", "f64"}
    /\ Apply(A, Done(<<stack[A][3], stack[A][2]>>, Ext(A), heap))

InitWhy ==
    /\ \E x \in Receivers :
           stack = [t \in Threads |-> IF t = A THEN <<x, Arr(1)>> ELSE <<>>]
    /\ heap = [i \in Ids |-> IF i = 1 THEN <<Text("a"), Text("b"), Bool(TRUE, None)>> ELSE <<>>]
    /\ status = [t \in Threads |-> "run"]
    /\ err = [t \in Threads |-> NoErr]
    /\ Quiet

NextWhy ==
    \/ \E item \in Explanations : DoExplainWhy(item)
    \/ \E item \in Explanations : DoExplainWhere(item)
    \/ DoWhy
    \/ DoWhere
    \/ Store
    \/ Drop

SpecWhy == InitWhy /\ [][NextWhy]_vars

\* ------------------------------------------------------------------ claims: provenance
\* The outcome is Ok(()) with val pushed on the stack below the operands.
Pushes(o, val) == o.err = "" /\ o.fault = "" /\ o.stack = Append(stack[A], val)

\* The outcome is Err with this message and rt.arg_err_index, nothing pushed.
FailsWith(o, msg, aei) ==
    o.err = msg /\ o.aei = aei /\ o.fault = "" /\ o.stack = stack[A]

\* The outcome is the type error for argument 0, nothing pushed.
TypeMismatch(o) == FailsWith(o, ExpectedArg, 0)

\* The elements of the array the outcome pushed.
PushedArray(o) == o.heap[o.stack[Len(o.stack)].v]

\* C13: explain_why on a boolean in local 1 and an explanation: a boolean
\* without a secret comes back with the one explanation as its secret, a
\* boolean with a secret comes back with the explanation added as the last
\* step and the earlier steps as they were; the truth value is the same;
\* a receiver that is no boolean is a type error and nothing is pushed.
C13_ExplainWhy ==
    AtStatement =>
        \A item \in Explanations :
            LET x == stack[A][1]
                o == explain_why(stack[A], Ext(A), heap, Ref(1), item)
            IN IF x.t # "bool" THEN TypeMismatch(o) /\ o.name = "bool"
               ELSE IF x.sec.some
               THEN Pushes(o, Bool(x.v, Some(x.sec.chain \o <<item>>)))
               ELSE Pushes(o, Bool(x.v, Some(<<item>>)))

\* Two explanations were attached to the true boolean, one after the other.
C13_Witness ==
    /\ AtStatement
    /\ stack[A][1] = Bool(TRUE, Some(<<Text("a"), Text("b")>>))

\* C14: why has four outcomes: a true boolean with a secret gives an array
\* of the secret reversed; a true boolean without a secret fails as empty; a
\* false boolean, with a secret or without, fails with the message about !;
\* anything else is a type error.  A failure pushes nothing.
C14_Why ==
    AtStatement =>
        LET x == stack[A][1]
            o == why(stack[A], Ext(A), heap, Ref(1))
        IN IF x.t # "bool" THEN TypeMismatch(o) /\ o.name = "bool"
           ELSE IF ~x.v THEN FailsWith(o, WrongValue, 0)
           ELSE IF ~x.sec.some THEN FailsWith(o, Empty, 0)
           ELSE /\ o.err = "" /\ o.fault = ""
                /\ Len(o.stack) = Len(stack[A]) + 1
                /\ o.stack[Len(o.stack)].t = "arr"
                /\ PushedArray(o) = Reverse(x.sec.chain)

\* why pushed the reversed secret of a true boolean.
C14_Witness ==
    /\ status[A] = "run" /\ Len(stack[A]) = 3
    /\ stack[A][1] = Bool(TRUE, Some(<<Text("a"), Text("b")>>))
    /\ stack[A][3].t = "arr"
    /\ heap[stack[A][3].v] = <<Text("b"), Text("a")>>

\* C16: explain_where and where do for numbers what explain_why and why do
\* for booleans: explain_where starts the secret of a number that has none
\* and adds to the secret of one that has, the number itself unchanged; where
\* gives the secret reversed, fails as empty on a number without a secret,
\* and never gives the secret of a NaN: a NaN with a secret fails as not a
\* number.
C16_Where ==
    (AtStatement /\ stack[A][1].t = "f64") =>
        LET x == stack[A][1]
            r == where(stack[A], Ext(A), heap, Ref(1))
        IN /\ \A item \in Explanations :
                  Pushes(explain_where(stack[A], Ext(A), heap, Ref(1), item),
                         Num(x.v, Some(IF x.sec.some THEN x.sec.chain \o <<item>>
                                       ELSE <<item>>)))
           /\ IF ~x.sec.some THEN FailsWith(r, Empty, 0)
              ELSE IF is_nan(x.v) THEN FailsWith(r, NotANumber, 0)
              ELSE /\ r.err = "" /\ r.fault = ""
                   /\ Len(r.stack) = Len(stack[A]) + 1
                   /\ r.stack[Len(r.stack)].t = "arr"
                   /\ PushedArray(r) = Reverse(x.sec.chain)

\* where was refused on a NaN that has a secret.
C16_Witness ==
    /\ status[A] = "err" /\ err[A].msg = NotANumber /\ err[A].aei = 0

\* C17 as claimed: explain_why fails on a false boolean, so no false boolean
\* has a secret.
C17_AsClaimed ==
    /\ \A k \in DOMAIN stack[A] :
           stack[A][k].t = "bool" => (stack[A][k].v \/ ~stack[A][k].sec.some)
    /\ (AtStatement /\ stack[A][1].t = "bool" /\ ~stack[A][1].v) =>
           \A item \in Explanations :
               explain_why(stack[A], Ext(A), heap, Ref(1), item).err # ""

\* C17: explain_why takes a false boolean as it takes a true one: the false
\* boolean comes back with the explanation in its secret.  The misuse is
\* reported where the secret is read: why on the boolean that came back
\* fails with the message about !, as it does on every false boolean.
C17_FalseExplained ==
    (AtStatement /\ stack[A][1].t = "bool" /\ ~stack[A][1].v) =>
        \A item \in Explanations :
            LET o == explain_why(stack[A], Ext(A), heap, Ref(1), item)
                got == o.stack[Len(o.stack)]
            IN /\ o.err = "" /\ o.fault = "" /\ Len(o.stack) = Len(stack[A]) + 1
               /\ got.t = "bool" /\ ~got.v /\ got.sec.some
               /\ got.sec.chain[Len(got.sec.chain)] = item
               /\ FailsWith(why(stack[A], Ext(A), heap, got), WrongValue, 0)
               /\ FailsWith(why(stack[A], Ext(A), heap, Ref(1)), WrongValue, 0)

\* A false boolean with two explanations attached is in local 1.
C17_Witness ==
    /\ AtStatement
    /\ stack[A][1].t = "bool" /\ ~stack[A][1].v
    /\ Len(stack[A][1].sec.chain) >= 2

\* ------------------------------------------------------------------ provenance: attach, then read
\* The script attaches the elements of the array in local 2 to the value in
\* local 1, first to last, and then reads the secret.
TrailItems == {Text("a"), Text("b"), Text("c")}
Trails == UNION {[1..n -> TrailItems] : n \in 0..MaxChain}

Trail == heap[stack[A][2].v]

TrailAttach ==
    /\ AtStatement /\ Len(Secret.chain) < Len(Trail)
    /\ IF stack[A][1].t = "bool"
       THEN DoExplainWhy(Trail[Len(Secret.chain) + 1])
       ELSE DoExplainWhere(Trail[Len(Secret.chain) + 1])

TrailRead ==
    /\ AtStatement /\ Len(Secret.chain) = Len(Trail)
    /\ IF stack[A][1].t = "bool" THEN DoWhy ELSE DoWhere

InitTrail ==
    /\ \E x \in {Bool(TRUE, None), Num("1", None)} :
           stack = [t \in Threads |-> IF t = A THEN <<x, Arr(1)>> ELSE <<>>]
    /\ \E es \in Trails : heap = [i \in Ids |-> IF i = 1 THEN es ELSE <<>>]
    /\ status = [t \in Threads |-> "run"]
    /\ err = [t \in Threads |-> NoErr]
    /\ Quiet

NextTrail ==
    \/ TrailAttach
    \/ Store
    \/ TrailRead
    \/ Drop

SpecTrail == InitTrail /\ [][NextTrail]_vars

\* why pushed its array: the script attached the whole of local 2 to the
\* boolean in local 1 and read it.
WhyReturned ==
    /\ status[A] = "run" /\ Len(stack[A]) = 3
    /\ stack[A][1].t = "bool" /\ stack[A][3].t = "arr"

\* C15 as claimed: why returns the explanations in the order they were
\* attached, the oldest first.
C15_AsClaimed == WhyReturned => heap[stack[A][3].v] = Trail

\* C15: for a true boolean and explanations e1..en attached one after the
\* other with explain_why, the secret holds e1..en in that order and why
\* returns the array [en, ..., e1]: the explanation attached last comes
\* first, the oldest last.
C15_NewestFirst ==
    WhyReturned =>
        /\ stack[A][1] = Bool(TRUE, Some(Trail))
        /\ heap[stack[A][3].v] = Reverse(Trail)

\* "a" and then "b" were attached; why returned ["b", "a"].
C15_Witness ==
    /\ WhyReturned
    /\ Trail = <<Text("a"), Text("b")>>
    /\ heap[stack[A][3].v] = <<Text("b"), Text("a")>>

\* ------------------------------------------------------------------ load
\* An entry of a module's external prelude: the name and the function
\* pointer.  A loaded function: the name and the number of prelude entries
\* the module had when it was registered.
Entry(name, f) == [name |-> name, f |-> f]
Function(name, n) == [name |-> name, n |-> n]

\* A RustObject that holds an Arc<Module>, with the module.
ModuleObject(m) == [t |-> "obj", v |-> ModuleHandle, module |-> m]

\* Module::add and Module::register.
add(m, e) == [m EXCEPT !.ext_prelude = Append(@, e)]
register(m, f) == [m EXCEPT !.functions = Append(@, Function(f.name, Len(m.ext_prelude)))]

\* Module::new_intrinsics, then for f in &rt.module.ext_prelude { m.add(..) }
RECURSIVE seed(_, _)
seed(rtm, n) ==
    IF n = 0 THEN NoModule ELSE add(seed(rtm, n - 1), rtm.ext_prelude[n])

\* The import loop that lets a later entry of a name replace the present one.
RECURSIVE import_prelude_last_wins(_, _, _)
import_prelude_last_wins(new, pre, j) ==
    IF j > Len(pre) THEN new
    ELSE LET has == {k \in DOMAIN new.ext_prelude : new.ext_prelude[k].name = pre[j].name}
         IN import_prelude_last_wins(
                IF has # {}
                THEN [new EXCEPT !.ext_prelude =
                         [k \in DOMAIN @ |-> IF k \in has THEN pre[j] ELSE @[k]]]
                ELSE add(new, pre[j]),
                pre, j + 1)

\* for f in &m.ext_prelude: the entry is added unless new_module has an
\* entry of that name.  pre: the import's prelude, j: the entry at hand.
RECURSIVE import_prelude(_, _, _)
import_prelude(new, pre, j) ==
    IF j > Len(pre) THEN new
    ELSE LET has_external ==
                 \E k \in DOMAIN new.ext_prelude : new.ext_prelude[k].name = pre[j].name
         IN import_prelude(IF has_external THEN new ELSE add(new, pre[j]), pre, j + 1)

\* for f in &m.functions { new_module.register(f.clone()) }
RECURSIVE register_all(_, _, _)
register_all(new, fns, j) ==
    IF j > Len(fns) THEN new ELSE register_all(register(new, fns[j]), fns, j + 1)

\* for it in &**array: each element must resolve to a RustObject that holds
\* a Module; its prelude is merged, then its functions are registered.
RECURSIVE imports(_, _, _, _)
imports(stk, new, array, i) ==
    IF i > Len(array) THEN [ok |-> TRUE, module |-> new]
    ELSE LET x == resolve(stk, array[i])
         IN IF x.t = "obj" /\ x.v = ModuleHandle
            THEN imports(stk,
                         register_all(import_prelude(new, x.module.ext_prelude, 1),
                                      x.module.functions, 1),
                         array, i + 1)
            ELSE [ok |-> FALSE, module |-> new]

\* The external loader, load and load_str: the text "fn main() {}" compiles
\* and registers main, any other text is refused with a diagnostic.
loader(text, m) ==
    IF text = "fn main() {}"
    THEN [ok |-> TRUE, module |-> register(m, Function("main", 0)), err |-> ""]
    ELSE [ok |-> FALSE, module |-> m, err |-> "Syntax error in " \o text]

WhenAttempting == "When attempting to load module:\n"

\* The handler that returns the loader's diagnostic as its own Err.
loaded_or_fail(stk, ext, hp, r) ==
    IF r.ok THEN Done(Append(stk, ResultOk(ModuleObject(r.module))), ext, hp)
    ELSE Fail(stk, ext, hp, WhenAttempting \o r.err, -1)

\* What the three handlers push: Ok(the new module in a new RustObject), or
\* Err(Error) with the formatted message and no trace.
loaded(stk, ext, hp, r) ==
    Done(Append(stk, IF r.ok THEN ResultOk(ModuleObject(r.module))
                     ELSE ResultErr(Text(WhenAttempting \o r.err))),
         ext, hp)

\* load.  rtm: rt.module.
load(stk, ext, hp, rtm, v) ==
    LET x == resolve(stk, v)
    IN IF x.t # "text" THEN OutErr(stk, hp, Error(ExpectedArg, 0, "string", 0, 0), "")
       ELSE loaded(stk, ext, hp, loader(x.v, seed(rtm, Len(rtm.ext_prelude))))

\* load__source_imports: the imports are merged first, the source is
\* looked at after them.
load__source_imports(stk, ext, hp, rtm, source, modules) ==
    LET x == resolve(stk, modules)
        m == IF x.t = "arr"
             THEN imports(stk, seed(rtm, Len(rtm.ext_prelude)), hp[x.v], 1)
             ELSE [ok |-> FALSE, module |-> NoModule]
        s == resolve(stk, source)
    IN IF ~m.ok THEN OutErr(stk, hp, Error(ExpectedArg, 1, "[Module]", 0, 0), "")
       ELSE IF s.t # "text" THEN OutErr(stk, hp, Error(ExpectedArg, 0, "str", 0, 0), "")
       ELSE loaded(stk, ext, hp, loader(s.v, m.module))

\* module__in_string_imports: source and name are looked at first.
module__in_string_imports(stk, ext, hp, rtm, name, source, modules) ==
    LET x == resolve(stk, modules)
        m == IF x.t = "arr"
             THEN imports(stk, seed(rtm, Len(rtm.ext_prelude)), hp[x.v], 1)
             ELSE [ok |-> FALSE, module |-> NoModule]
        s == resolve(stk, source)
    IN IF s.t # "text" THEN OutErr(stk, hp, Error(ExpectedArg, 1, "str", 0, 0), "")
       ELSE IF resolve(stk, name).t # "text"
       THEN OutErr(stk, hp, Error(ExpectedArg, 0, "str", 0, 0), "")
       ELSE IF ~m.ok THEN OutErr(stk, hp, Error(ExpectedArg, 2, "[Module]", 0, 0), "")
       ELSE loaded(stk, ext, hp, loader(s.v, m.module))

\* ------------------------------------------------------------------ load runtime
\* Runtime 1 holds the source text in local 1, a name in local 2 and the
\* array of imports in local 3; a fourth slot is the pushed Result.
MaxImports == 2

LoadLocals == 1..3

LogHost == Entry("log", "host")
LogLib == Entry("log", "lib")
DrawLib == Entry("draw", "lib")

\* The preludes of the runtime's module and of the imports.
Bases == {<<>>, <<LogHost>>, <<DrawLib, LogHost>>}
Preludes == {<<>>, <<LogLib>>, <<DrawLib>>, <<LogLib, DrawLib>>,
             <<DrawLib, LogHost>>, <<LogLib, LogHost>>}

\* What the array of imports can hold: modules, and an object that is none.
Importable ==
    {ModuleObject(Module(p, <<Function("f", Len(p))>>)) : p \in Preludes}
        \cup {RustObject(OtherHandle)}

Sources == {Text("fn main() {}"), Text("fn main( {}")}

AtLoad == status[A] = "run" /\ Len(stack[A]) = Cardinality(LoadLocals)

DoLoad(v) ==
    /\ AtLoad
    /\ Apply(A, load(stack[A], Ext(A), heap, module, v))

DoLoadSourceImports(source, modules) ==
    /\ AtLoad
    /\ Apply(A, load__source_imports(stack[A], Ext(A), heap, module, source, modules))

DoModuleInStringImports(name, source, modules) ==
    /\ AtLoad
    /\ Apply(A, module__in_string_imports(stack[A], Ext(A), heap, module,
                                          name, source, modules))

\* The interpreter pops the Result.
DropLoaded ==
    /\ status[A] = "run" /\ Len(stack[A]) > Cardinality(LoadLocals)
    /\ Apply(A, Done(SubSeq(stack[A], 1, Len(stack[A]) - 1), Ext(A), heap))

InitLoad ==
    /\ \E s \in Sources :
           stack = [t \in Threads |-> IF t = A THEN <<s, Text("lib"), Arr(1)>> ELSE <<>>]
    /\ \E n \in 0..MaxImports : \E array \in [1..n -> Importable] :
           heap = [i \in Ids |-> IF i = 1 THEN array ELSE <<>>]
    /\ \E p \in Bases : module = Module(p, <<>>)
    /\ status = [t \in Threads |-> "run"]
    /\ err = [t \in Threads |-> NoErr]
    /\ call_stack = [t \in Threads |-> <<>>]
    /\ pend = [t \in Threads |-> NoPend]
    /\ guard = [h \in Handles |-> 0]
    /\ poisoned = [h \in Handles |-> FALSE]
    /\ task = <<>>
    /\ valid = <<>>
    /\ joining = [t \in Threads |-> 0]
    /\ queue = <<>>
    /\ senders = 0

NextLoad ==
    \/ \E v \in {Ref(1), Ref(3)} : DoLoad(v)
    \/ \E source \in {Ref(1), Ref(3)}, modules \in {Ref(3), Ref(1)} :
           DoLoadSourceImports(source, modules)
    \/ \E name \in {Ref(2), Ref(3)}, source \in {Ref(1), Ref(3)}, modules \in {Ref(3), Ref(1)} :
           DoModuleInStringImports(name, source, modules)
    \/ DropLoaded

SpecLoad == InitLoad /\ [][NextLoad]_vars

\* ------------------------------------------------------------------ claims: load
\* The imports in local 3 and whether each of them is a module.
Imports == heap[stack[A][3].v]
AllModules == \A i \in DOMAIN Imports : Imports[i].t = "obj" /\ Imports[i].v = ModuleHandle

\* Entry j of import i stays out of the merge when the base, an import
\* listed before it, or an earlier entry of the same import has its name.
Shadowed(i, j) ==
    LET name == Imports[i].module.ext_prelude[j].name
    IN \/ \E k \in DOMAIN module.ext_prelude : module.ext_prelude[k].name = name
       \/ \E h \in 1..(i - 1) : \E k \in DOMAIN Imports[h].module.ext_prelude :
              Imports[h].module.ext_prelude[k].name = name
       \/ \E k \in 1..(j - 1) : Imports[i].module.ext_prelude[k].name = name

\* The entries import i brings in, in its order.
RECURSIVE Brings(_, _)
Brings(i, j) ==
    IF j > Len(Imports[i].module.ext_prelude) THEN <<>>
    ELSE (IF Shadowed(i, j) THEN <<>> ELSE <<Imports[i].module.ext_prelude[j]>>)
             \o Brings(i, j + 1)

\* The merged prelude up to and with import n.
RECURSIVE MergedTo(_)
MergedTo(n) == IF n = 0 THEN module.ext_prelude ELSE MergedTo(n - 1) \o Brings(n, 1)

\* The functions of imports 1..n, each registered when the prelude held the
\* entries up to and with its own import's.
RECURSIVE RegisteredTo(_)
RegisteredTo(n) ==
    IF n = 0 THEN <<>>
    ELSE RegisteredTo(n - 1)
             \o [k \in DOMAIN Imports[n].module.functions |->
                    Function(Imports[n].module.functions[k].name, Len(MergedTo(n)))]

\* The module in the Result the outcome pushed.
BuiltBy(o) == o.stack[Len(o.stack)].v.module

\* The outcome pushed one value, a success Result.
PushedOk(o) ==
    /\ o.err = "" /\ o.fault = "" /\ Len(o.stack) = Len(stack[A]) + 1
    /\ SubSeq(o.stack, 1, Len(stack[A])) = stack[A]
    /\ o.stack[Len(o.stack)].t = "ok"

\* C18: the prelude of a module built by load__source_imports or
\* module__in_string_imports is the runtime's prelude, entry for entry,
\* followed for each import in listed order by those of its entries whose
\* name was not present yet; nothing added earlier is replaced or removed,
\* and the functions of an import are registered after its entries.
C18_PreludeMerge ==
    (AtLoad /\ AllModules /\ stack[A][1].v = "fn main() {}") =>
        \A o \in {load__source_imports(stack[A], Ext(A), heap, module, Ref(1), Ref(3)),
                  module__in_string_imports(stack[A], Ext(A), heap, module,
                                            Ref(2), Ref(1), Ref(3))} :
            /\ PushedOk(o)
            /\ BuiltBy(o).ext_prelude = MergedTo(Len(Imports))
            /\ SubSeq(BuiltBy(o).functions, 1, Len(BuiltBy(o).functions) - 1)
                   = RegisteredTo(Len(Imports))

\* The base and both imports have an entry named log: the module built for
\* the Result on the stack has the base's, and draw from the first import.
C18_Witness ==
    /\ status[A] = "run" /\ Len(stack[A]) = 4 /\ stack[A][4].t = "ok"
    /\ module.ext_prelude = <<LogHost>>
    /\ Len(Imports) = 2 /\ AllModules
    /\ Imports[1].module.ext_prelude = <<LogLib, DrawLib>>
    /\ Imports[2].module.ext_prelude = <<DrawLib, LogHost>>
    /\ stack[A][4].v.module.ext_prelude = <<LogHost, DrawLib>>

\* C19: with well-typed arguments load, load__source_imports and
\* module__in_string_imports return Ok(()) whatever the loader says and push
\* one Result: Ok with a new module handle when the loader succeeds, Err
\* with the message "When attempting to load module:\n" followed by the
\* loader's diagnostic and no trace when it fails.  rt.module stays as it is.
C19_LoadResult ==
    [][/\ module' = module
       /\ (AtLoad /\ AllModules) =>
              \A o \in {load(stack[A], Ext(A), heap, module, Ref(1)),
                        load__source_imports(stack[A], Ext(A), heap, module, Ref(1), Ref(3)),
                        module__in_string_imports(stack[A], Ext(A), heap, module,
                                                  Ref(2), Ref(1), Ref(3))} :
                  LET got == o.stack[Len(o.stack)]
                  IN /\ o.err = "" /\ o.fault = ""
                     /\ Len(o.stack) = Len(stack[A]) + 1
                     /\ SubSeq(o.stack, 1, Len(stack[A])) = stack[A]
                     /\ IF stack[A][1].v = "fn main() {}"
                        THEN got.t = "ok" /\ got.v.t = "obj" /\ got.v.v = ModuleHandle
                        ELSE /\ got.t = "err" /\ got.v.trace = <<>>
                             /\ got.v.message =
                                    Text("When attempting to load module:\n"
                                             \o "Syntax error in " \o stack[A][1].v)]_vars

\* The loader refused the source: the failure Result is on the stack.
C19_Witness ==
    /\ status[A] = "run" /\ Len(stack[A]) = 4
    /\ stack[A][4] = ResultErr(Text("When attempting to load module:\nSyntax error in fn main( {}"))

\* ------------------------------------------------------------------ option and result
\* The value inside an Option or Result (the message of an Error).
Inner(x) ==
    IF x.t \in {"some", "ok"} THEN x.v
    ELSE IF x.t = "err" THEN x.v.message
    ELSE x

\* some that wraps the resolved value as it is.
some_shallow(stk, ext, hp, v) ==
    Done(Append(stk, OptionSome(resolve(stk, v))), ext \o <<resolve(stk, v)>>, hp)

\* some, ok and err: the operand is resolved and deep-cloned, the clone is
\* wrapped and pushed.  ext: the values held outside the stack's own slots.
some(stk, ext, hp, v) ==
    LET c == deep_clone(resolve(stk, v), stk, hp, Reach(stk \o ext \o <<v>>, hp))
    IN Done(Append(stk, OptionSome(c.val)), ext \o <<c.val>>, c.heap)

ok(stk, ext, hp, v) ==
    LET c == deep_clone(resolve(stk, v), stk, hp, Reach(stk \o ext \o <<v>>, hp))
    IN Done(Append(stk, ResultOk(c.val)), ext \o <<c.val>>, c.heap)

err_(stk, ext, hp, v) ==
    LET c == deep_clone(resolve(stk, v), stk, hp, Reach(stk \o ext \o <<v>>, hp))
    IN Done(Append(stk, ResultErr(c.val)), ext \o <<c.val>>, c.heap)

\* ------------------------------------------------------------------ option and result runtime
\* Runtime 1 holds a value in local 1; slot 2 is the pushed Option or Result.
\* The values inside the wrappers on the stack.
Inners == [i \in 1..(Len(stack[A]) - 1) |-> Inner(stack[A][i + 1])]

\* The runtime takes the outcome; an Err ends the run.
WrapApply(o) ==
    /\ stack' = [stack EXCEPT ![A] = IF o.err # "" THEN <<>> ELSE o.stack]
    /\ heap' = o.heap
    /\ status' = [status EXCEPT ![A] = IF o.err # "" THEN "err" ELSE "run"]
    /\ err' = [err EXCEPT ![A] = IF o.err # "" THEN Error(o.err, o.aei, o.name, o.a, o.b)
                                 ELSE NoErr]
    /\ UNCHANGED <<call_stack, pend, guard, poisoned>>
    /\ UNCHANGED Others

Unwrapped == status[A] = "run" /\ Len(stack[A]) = 1
Wrapped == status[A] = "run" /\ Len(stack[A]) = 2

\* The operand: a reference to local 1, or a copy of its value.
WrapOperands == IF stack[A] # <<>> THEN {Ref(1), stack[A][1]} ELSE {}

DoSome(v) == Unwrapped /\ WrapApply(some(stack[A], <<>>, heap, v))
DoOk(v) == Unwrapped /\ WrapApply(ok(stack[A], <<>>, heap, v))
DoErr(v) == Unwrapped /\ WrapApply(err_(stack[A], <<>>, heap, v))

\* The script writes to the array in local 1 while the wrapper is held.
WrapPush(item) ==
    /\ Wrapped
    /\ IsArrayRef(stack[A], Ref(1)) => Len(heap[stack[A][1].v]) < MaxLen
    /\ LET o == push(SubSeq(stack[A], 1, 1), Inners, heap, Ref(1), item)
       IN WrapApply([o EXCEPT !.stack = IF o.err = "" THEN Append(@, stack[A][2]) ELSE @])

WrapClear ==
    /\ Wrapped
    /\ LET o == clear(SubSeq(stack[A], 1, 1), Inners, heap, Ref(1))
       IN WrapApply([o EXCEPT !.stack = IF o.err = "" THEN Append(@, stack[A][2]) ELSE @])

\* The script assigns another value to local 1: what it held is dropped.
WrapAssign(x) ==
    /\ Wrapped
    /\ WrapApply(Done(<<x, stack[A][2]>>, Inners, heap))

\* The interpreter pops the wrapper.
DropWrapped ==
    /\ Wrapped
    /\ WrapApply(Done(SubSeq(stack[A], 1, 1), <<>>, heap))

InitWrap ==
    /\ stack = [t \in Threads |-> IF t = A THEN <<Arr(1)>> ELSE <<>>]
    /\ \E first \in {<<F64(1)>>, <<Arr(2)>>, <<F64(1), Arr(2)>>} :
           heap = [i \in Ids |-> IF i = 1 THEN first
                                 ELSE IF i = 2 /\ Arr(2) \in {first[k] : k \in DOMAIN first}
                                 THEN <<F64(1)>> ELSE <<>>]
    /\ status = [t \in Threads |-> "run"]
    /\ err = [t \in Threads |-> NoErr]
    /\ Quiet

NextWrap ==
    \/ \E v \in WrapOperands : DoSome(v)
    \/ \E v \in WrapOperands : DoOk(v)
    \/ \E v \in WrapOperands : DoErr(v)
    \/ \E item \in {F64(2)} : WrapPush(item)
    \/ WrapClear
    \/ \E x \in {F64(0)} : WrapAssign(x)
    \/ DropWrapped

SpecWrap == InitWrap /\ [][NextWrap]_vars

\* ------------------------------------------------------------------ claims: option and result
\* The storages reached from val.
Storages(val, hp) == Reach(<<val>>, hp)

\* C20: some, ok and err wrap a deep clone of the resolved operand: what
\* the wrapper holds reads as the operand did, is no stack reference and
\* shares no storage with local 1; as long as the wrapper is held, no write
\* to the array in local 1 and no assignment to local 1 changes what the
\* wrapper holds or makes it share a storage.
C20_WrapDeepClone ==
    [][/\ (Unwrapped /\ status'[A] = "run" /\ Len(stack'[A]) = 2) =>
              LET got == Inner(stack'[A][2])
              IN /\ stack'[A][2].t \in {"some", "ok", "err"}
                 /\ stack'[A][2].t = "err" => stack'[A][2].v.trace = <<>>
                 /\ got.t # "ref"
                 /\ DeepRead(got, heap') = DeepRead(stack[A][1], heap)
                 /\ stack'[A][1] = stack[A][1]
                 /\ Storages(got, heap') \cap Storages(stack'[A][1], heap') = {}
       /\ (Wrapped /\ status'[A] = "run" /\ Len(stack'[A]) = 2) =>
              /\ DeepRead(Inner(stack'[A][2]), heap') = DeepRead(Inner(stack[A][2]), heap)
              /\ Storages(Inner(stack'[A][2]), heap') \cap Storages(stack'[A][1], heap') = {}]_vars

\* The array was wrapped by some and then cleared: the Option still holds
\* the two elements, the nested array among them.
C20_Witness ==
    /\ Wrapped /\ stack[A][2].t = "some"
    /\ stack[A][1].t = "arr" /\ heap[stack[A][1].v] = <<>>
    /\ Len(heap[stack[A][2].v.v]) = 2
    /\ heap[stack[A][2].v.v][1] = F64(1)
    /\ heap[stack[A][2].v.v][2].t = "arr"
    /\ heap[heap[stack[A][2].v.v][2].v] = <<F64(1)>>

\* ------------------------------------------------------------------ unwrap
\* Variable::Result(Err(Error { message, trace })).
Traced(message, trace) == [t |-> "err", v |-> [message |-> message, trace |-> trace]]

\* "Expected `some(_)`", written without the quotes around some(_).
ExpectedSome == "Expected some(_)"

\* Runtime::stack_trace: one line per frame of the call stack, outermost
\* first, each ended by a line break.
RECURSIVE stack_trace(_)
stack_trace(cs) ==
    IF cs = <<>> THEN "" ELSE cs[1].f \o "\n" \o stack_trace(Tail(cs))

\* write_variable(.., EscapeString::None, 0): a text as it is, a number in
\* its decimal form.
write_variable(x) ==
    IF x.t = "text" THEN x.v
    ELSE CASE x.v = 0 -> "0" [] x.v = 1 -> "1" [] x.v = 2 -> "2" [] OTHER -> "7"

\* The trace lines of an error, each behind a line break.
RECURSIVE trace_lines(_)
trace_lines(trace) ==
    IF trace = <<>> THEN "" ELSE "\n" \o trace[1] \o trace_lines(Tail(trace))

\* The diagnostic with the trace lines before the message.
diagnostic_trace_first(cs, e) ==
    stack_trace(cs) \o trace_lines(e.trace) \o "\n" \o write_variable(e.message)

\* The text unwrap fails with on Err(e): w after the writes of lines 1192-1199.
diagnostic(cs, e) ==
    stack_trace(cs) \o "\n" \o write_variable(e.message) \o trace_lines(e.trace)

\* unwrap: the operand was popped.  cs: rt.call_stack.
unwrap(stk, ext, hp, cs, v) ==
    LET x == resolve(stk, v)
    IN CASE x.t = "some" -> Done(Append(stk, x.v), ext, hp)
         [] x.t = "none" -> Fail(stk, ext, hp, ExpectedSome, 0)
         [] x.t = "ok" -> Done(Append(stk, x.v), ext, hp)
         [] x.t = "err" -> Fail(stk, ext, hp, diagnostic(cs, x.v), 0)
         [] OTHER -> OutErr(stk, Collect(stk \o ext, hp),
                            Error(ExpectedArg, 0, "some(_) or ok(_)", 0, 0), "")

\* unwrap_or that fails on None as unwrap does.
unwrap_or_strict(stk, ext, hp, v, def) ==
    LET x == resolve(stk, v)
    IN CASE x.t \in {"some", "ok"} -> Done(Append(stk, x.v), ext, hp)
         [] x.t = "none" -> Fail(stk, ext, hp, ExpectedSome, 0)
         [] x.t = "err" -> Done(Append(stk, resolve(stk, def)), ext, hp)
         [] OTHER -> OutErr(stk, Collect(stk \o ext, hp),
                            Error(ExpectedArg, 0, "some(_) or ok(_)", 0, 0), "")

\* unwrap_or: the default was popped, then the value.
unwrap_or(stk, ext, hp, v, def) ==
    LET x == resolve(stk, v)
    IN CASE x.t \in {"some", "ok"} -> Done(Append(stk, x.v), ext, hp)
         [] x.t \in {"none", "err"} -> Done(Append(stk, resolve(stk, def)), ext, hp)
         [] OTHER -> OutErr(stk, Collect(stk \o ext, hp),
                            Error(ExpectedArg, 0, "some(_) or ok(_)", 0, 0), "")

\* ------------------------------------------------------------------ unwrap runtime
\* Runtime 1 holds an Option or Result in local 1 and the default in local 2;
\* slot 3 is what unwrap or unwrap_or pushed.
\* Trace lines an Error carries.
MaxTrace == 2
\* Frames on the call stack.
MaxDepth == 2

TraceLines == {"In f", "In g"}
Traces == UNION {[1..n -> TraceLines] : n \in 0..MaxTrace}

\* What local 1 holds.
Wrappers ==
    {OptionSome(F64(1)), OptionSome(Arr(2)), OptionNone, ResultOk(Text("fine")),
     ResultOk(Arr(2)), F64(1)}
    \cup {Traced(m, tr) : m \in {Text("boom"), F64(2)}, tr \in Traces}

\* A frame of rt.call_stack: the name of the function.
Frame(fn_name) == [f |-> fn_name, pins |-> <<>>]

AtUnwrap == status[A] = "run" /\ Len(stack[A]) = 2

\* The operand: a reference to local 1, or a copy of its value.
UnwrapOperands == IF stack[A] # <<>> THEN {Ref(1), stack[A][1]} ELSE {}
\* The default: a reference to local 2, or a number.
Defaults == {Ref(2), F64(7)}

DoUnwrap(v) ==
    AtUnwrap /\ WrapApply(unwrap(stack[A], <<>>, heap, call_stack[A], v))

DoUnwrapOr(v, def) ==
    AtUnwrap /\ WrapApply(unwrap_or(stack[A], <<>>, heap, v, def))

\* The interpreter pops the unwrapped value.
DropUnwrapped ==
    /\ status[A] = "run" /\ Len(stack[A]) = 3
    /\ WrapApply(Done(SubSeq(stack[A], 1, 2), <<>>, heap))

\* The script enters a function that works on the two locals, and leaves it.
UnwrapEnter(fn_name) ==
    /\ AtUnwrap /\ Len(call_stack[A]) < MaxDepth
    /\ call_stack' = [call_stack EXCEPT ![A] = Append(@, Frame(fn_name))]
    /\ UNCHANGED <<stack, heap, status, err, pend, guard, poisoned>>
    /\ UNCHANGED Others

UnwrapLeave ==
    /\ AtUnwrap /\ Len(call_stack[A]) > 1
    /\ call_stack' = [call_stack EXCEPT ![A] = SubSeq(@, 1, Len(@) - 1)]
    /\ UNCHANGED <<stack, heap, status, err, pend, guard, poisoned>>
    /\ UNCHANGED Others

InitUnwrap ==
    /\ \E x \in Wrappers :
           /\ stack = [t \in Threads |-> IF t = A THEN <<x, Arr(1)>> ELSE <<>>]
           /\ heap = [i \in Ids |-> IF i = 1 THEN <<F64(5)>>
                                    ELSE IF i = 2 /\ x.t \in {"some", "ok"} /\ x.v = Arr(2)
                                    THEN <<F64(1)>>
                                    ELSE <<>>]
    /\ status = [t \in Threads |-> "run"]
    /\ err = [t \in Threads |-> NoErr]
    /\ call_stack = [t \in Threads |-> IF t = A THEN <<Frame("main")>> ELSE <<>>]
    /\ pend = [t \in Threads |-> NoPend]
    /\ guard = [h \in Handles |-> 0]
    /\ poisoned = [h \in Handles |-> FALSE]
    /\ task = <<>>
    /\ valid = <<>>
    /\ joining = [t \in Threads |-> 0]
    /\ queue = <<>>
    /\ senders = 0
    /\ module = NoModule

NextUnwrap ==
    \/ \E v \in UnwrapOperands : DoUnwrap(v)
    \/ \E v \in UnwrapOperands : \E def \in Defaults : DoUnwrapOr(v, def)
    \/ DropUnwrapped
    \/ \E fn_name \in {"f", "g"} : UnwrapEnter(fn_name)
    \/ UnwrapLeave

SpecUnwrap == InitUnwrap /\ [][NextUnwrap]_vars

\* ------------------------------------------------------------------ claims: unwrap
\* The strings of seq one behind the other.
RECURSIVE Concat(_)
Concat(seq) ==
    IF seq = <<>> THEN "" ELSE Concat(SubSeq(seq, 1, Len(seq) - 1)) \o seq[Len(seq)]

\* The message of an error as text.
Rendered(message) ==
    IF message = F64(2) THEN "2" ELSE message.v

\* The diagnostic of a failure Result: the line of every frame, a line
\* break, the message, and every trace line in its stored order behind a
\* line break.
FullDiagnostic(e) ==
    Concat([i \in 1..Len(call_stack[A]) |-> call_stack[A][i].f \o "\n"]
           \o <<"\n", Rendered(e.message)>>
           \o [i \in 1..Len(e.trace) |-> "\n" \o e.trace[i]])

\* C21: unwrap on the value of local 1: a present Option or a success
\* Result pushes the inner value as the one result and leaves the heap as it
\* is; an absent Option fails with ExpectedSome; a failure Result fails with
\* the call-stack trace, then the message as text, then the trace lines in
\* their stored order; a failing unwrap pushes nothing.
C21_Unwrap ==
    AtUnwrap =>
        \A v \in UnwrapOperands :
            LET x == stack[A][1]
                o == unwrap(stack[A], <<>>, heap, call_stack[A], v)
            IN /\ x.t \in {"some", "ok"} => Pushes(o, x.v) /\ o.heap = heap
               /\ x.t = "none" => FailsWith(o, ExpectedSome, 0)
               /\ x.t = "err" => FailsWith(o, FullDiagnostic(x.v), 0)

\* unwrap failed inside f on an error with two trace lines.
C21_Witness ==
    /\ status[A] = "err"
    /\ err[A].msg = "main\nf\n\nboom\nIn g\nIn f"
    /\ err[A].aei = 0

\* C22: unwrap_or on an Option or Result in local 1 never fails: it pushes
\* exactly one value, the inner value of a present Option or success Result,
\* the resolved default for an absent Option or failure Result.
C22_UnwrapOr ==
    AtUnwrap =>
        \A v \in UnwrapOperands : \A def \in Defaults :
            LET x == stack[A][1]
                o == unwrap_or(stack[A], <<>>, heap, v, def)
            IN x.t \in {"some", "ok", "none", "err"} =>
                   /\ x.t \in {"some", "ok"} => Pushes(o, x.v)
                   /\ x.t \in {"none", "err"} =>
                          Pushes(o, IF def = Ref(2) THEN stack[A][2] ELSE def)
                   /\ o.heap = heap

\* unwrap_or on a failure Result pushed the array of local 2.
C22_Witness ==
    /\ status[A] = "run" /\ Len(stack[A]) = 3
    /\ stack[A][1].t = "err" /\ stack[A][1].v.trace # <<>>
    /\ stack[A][3] = Arr(1)

\* ------------------------------------------------------------------ claims: failures
\* The outcome is a failure value: the handler returned Err, nothing aborted.
Failure(o) == o.err # "" /\ o.fault = ""

\* C23: an array intrinsic given an index outside the array's bounds returns
\* a failure value and does not abort: insert and insert_ref at an index
\* above the length, remove at the length, swap with i or j at the length,
\* pop on an empty array.
C23_OutOfBoundsFails ==
    Ready(A) =>
        \A v \in {Ref(i) : i \in Locals} :
            IsArrayRef(stack[A], v) =>
                LET n == Len(heap[stack[A][v.v].v])
                IN /\ Failure(insert(stack[A], Ext(A), heap, v, F64(n + 1), F64(2)))
                   /\ Failure(insert_ref(stack[A], Ext(A), heap, v, F64(n + 1), F64(2)))
                   /\ Failure(remove(stack[A], Ext(A), heap, v, F64(n)))
                   /\ n = 0 => Failure(pop(stack[A], Ext(A), heap, v))
                   /\ Failure(swap(stack[A], Ext(A), heap, v, F64(n), F64(0)))
                   /\ Failure(swap(stack[A], Ext(A), heap, v, F64(0), F64(n)))

\* The outcome is the type error that names the variant expected of
\* argument aei.
Expects(o, variant, aei) ==
    o.err = ExpectedArg /\ o.name = variant /\ o.aei = aei /\ o.fault = ""

\* C24: a type-mismatch failure names the variant the operation expects of
\* the offending argument, and that argument's index: whatever local 1
\* holds that is no boolean, explain_why and why report a bool expected of
\* argument 0; whatever it holds that is no number, explain_where and where
\* report an f64 expected of argument 0.
C24_ExpectedVariant ==
    AtStatement =>
        LET x == stack[A][1]
        IN /\ x.t # "bool" =>
                  /\ Expects(why(stack[A], Ext(A), heap, Ref(1)), "bool", 0)
                  /\ \A item \in Explanations :
                         Expects(explain_why(stack[A], Ext(A), heap, Ref(1), item), "bool", 0)
           /\ x.t # "f64" =>
                  /\ Expects(where(stack[A], Ext(A), heap, Ref(1)), "f64", 0)
                  /\ \A item \in Explanations :
                         Expects(explain_where(stack[A], Ext(A), heap, Ref(1), item), "f64", 0)

\* ------------------------------------------------------------------ data literals
\* src/intrinsics/data.rs.  The text is a sequence of tokens: a bracket, a
\* separator, a blank, a number, a quoted string or a word; ReadToken is the
\* text with the position of the next token.
Quoted == "\"s\""
Blank == " "
\* SEPS, the characters that end a key.
SEPS == {"(", ")", "{", "}", "[", "]", ",", ".", ":", ";", "\n", "\"", "\\"}
Digits == {"1", "2", "3", "4", "5"}

\* The token the reader is at, "" behind the end of the text.
At(text, pos) == IF pos <= Len(text) THEN text[pos] ELSE ""
\* read.tag(s).
tag(text, pos, s) == At(text, pos) = s
\* read.number(..) and the value parse_number gives.
number(text, pos) == At(text, pos) \in Digits
parse_number(token) ==
    CASE token = "1" -> 1 [] token = "2" -> 2 [] token = "3" -> 3
      [] token = "4" -> 4 [] OTHER -> 5

\* Variable::Vec4, Variable::Array, Variable::Object and Variable::Link as
\* decoded: the array's storage is new and its own, so the elements stand
\* for it; the link is the items in the order they were pushed.
Vec4(x, y, z, w) == [t |-> "vec4", v |-> <<x, y, z, w>>]
Array(res) == [t |-> "array", v |-> res]
Object(res) == [t |-> "object", v |-> res]
Link(items) == [t |-> "link", v |-> items]

\* Ok(val) with the reader behind what was consumed, and Err(msg) with the
\* reader where the decoder stopped.
Decoded(val, pos) == [ok |-> TRUE, val |-> val, pos |-> pos, err |-> ""]
Refused(msg, pos) == [ok |-> FALSE, val |-> F64(0), pos |-> pos, err |-> msg]

ExpectedComma == "Expected ,"
ExpectedKey == "Expected key"
ExpectedColon == "Expected :"
ExpectedBrace == "Expected {"
ExpectedX == "Expected x component"
ExpectedY == "Expected y component"
NotImplemented == "Not implemented"
LinkRefuses == "Expected bool, f64 or str"

\* opt_w: the reader behind the blanks.
RECURSIVE opt_w(_, _)
opt_w(text, pos) ==
    IF At(text, pos) = Blank THEN opt_w(text, pos + 1) ELSE pos

\* comma: blanks, a comma if there is one, blanks; res says there was one.
comma(text, pos) ==
    LET p == opt_w(text, pos)
    IN IF tag(text, p, ",") THEN [res |-> TRUE, pos |-> opt_w(text, p + 1)]
       ELSE [res |-> FALSE, pos |-> opt_w(text, p)]

\* vec4: the opening bracket was consumed.  x and y are read and consumed,
\* then z behind a comma; w is read and left where it is; a closing bracket
\* is consumed when the reader is at one.
vec4(text, pos) ==
    IF ~number(text, pos) THEN Refused(ExpectedX, pos)
    ELSE LET x == parse_number(At(text, pos))
             p1 == comma(text, pos + 1).pos
         IN IF ~number(text, p1) THEN Refused(ExpectedY, p1)
            ELSE LET y == parse_number(At(text, p1))
                     c == comma(text, p1 + 1)
                     hasz == c.res /\ number(text, c.pos)
                     p2 == IF hasz THEN comma(text, c.pos + 1).pos ELSE c.pos
                     hasw == hasz /\ number(text, p2)
                     p3 == opt_w(text, p2)
                 IN Decoded(Vec4(x, y,
                                 IF hasz THEN parse_number(At(text, c.pos)) ELSE 0,
                                 IF hasw THEN parse_number(At(text, p2)) ELSE 0),
                            IF tag(text, p3, ")") THEN p3 + 1 ELSE p3)

\* Link::push: a boolean, a number or a text is taken, anything else refused.
push_link(lnk, item) ==
    IF item.t \in {"bool", "f64", "text"}
    THEN [ok |-> TRUE, link |-> Append(lnk, item)]
    ELSE [ok |-> FALSE, link |-> lnk]

\* The key of an object entry: the tokens up to a separator or a blank.
RECURSIVE until_any_or_whitespace(_, _)
until_any_or_whitespace(text, pos) ==
    IF At(text, pos) \in SEPS \cup {Blank, ""} THEN 0
    ELSE 1 + until_any_or_whitespace(text, pos + 1)

RECURSIVE raw_string(_, _, _)
raw_string(text, pos, n) ==
    IF n = 0 THEN "" ELSE text[pos] \o raw_string(text, pos + 1, n - 1)

\* res.insert(key, val) on the HashMap: the entry of the key is replaced.
insert_key(res, key, val) == {e \in res : e[1] # key} \cup {<<key, val>>}

RECURSIVE expr(_, _), object(_, _, _, _), array(_, _, _, _),
          link_elems_skip(_, _, _), link_elems(_, _, _)

\* The loop of object: res is the map so far.
object(text, pos, res, was_comma) ==
    LET p == opt_w(text, pos)
    IN IF tag(text, p, "}") THEN Decoded(Object(res), p + 1)
       ELSE IF res # {} /\ ~was_comma THEN Refused(ExpectedComma, p)
       ELSE LET n == until_any_or_whitespace(text, p)
                p1 == opt_w(text, p + n)
            IN IF n = 0 THEN Refused(ExpectedKey, p)
               ELSE IF ~tag(text, p1, ":") THEN Refused(ExpectedColon, p1)
               ELSE LET e == expr(text, opt_w(text, p1 + 1))
                        c == comma(text, e.pos)
                    IN IF ~e.ok THEN e
                       ELSE object(text, c.pos, insert_key(res, raw_string(text, p, n), e.val),
                                   c.res)

\* The loop of array: res is the elements so far.
array(text, pos, res, was_comma) ==
    LET p == opt_w(text, pos)
    IN IF tag(text, p, "]") THEN Decoded(Array(res), p + 1)
       ELSE IF res # <<>> /\ ~was_comma THEN Refused(ExpectedComma, p)
       ELSE LET e == expr(text, p)
                c == comma(text, e.pos)
            IN IF ~e.ok THEN e
               ELSE array(text, c.pos, Append(res, e.val), c.res)

\* The loop of link that leaves out an element the link refuses.
link_elems_skip(text, pos, lnk) ==
    LET p == opt_w(text, pos)
    IN IF tag(text, p, "}") THEN Decoded(Link(lnk), p + 1)
       ELSE LET e == expr(text, p)
            IN IF ~e.ok THEN e
               ELSE link_elems_skip(text, e.pos, push_link(lnk, e.val).link)

\* The loop of link: lnk is the link so far.
link_elems(text, pos, lnk) ==
    LET p == opt_w(text, pos)
    IN IF tag(text, p, "}") THEN Decoded(Link(lnk), p + 1)
       ELSE LET e == expr(text, p)
                l == push_link(lnk, e.val)
            IN IF ~e.ok THEN e
               ELSE IF ~l.ok THEN Refused(LinkRefuses, e.pos)
               ELSE link_elems(text, e.pos, l.link)

\* link: the word was consumed; the brace, then the elements onto
\* Link::new().
link(text, pos) ==
    LET p == opt_w(text, pos)
    IN IF tag(text, p, "{") THEN link_elems(text, opt_w(text, p + 1), <<>>)
       ELSE Refused(ExpectedBrace, p)

\* expr: the kinds of literal in the order they are tried; no text here
\* holds a colour.
expr(text, pos) ==
    IF tag(text, pos, "{") THEN object(text, pos + 1, {}, FALSE)
    ELSE IF tag(text, pos, "[") THEN array(text, pos + 1, <<>>, FALSE)
    ELSE IF tag(text, pos, "(") THEN vec4(text, pos + 1)
    ELSE IF tag(text, pos, "link") THEN link(text, pos + 1)
    ELSE IF tag(text, pos, Quoted) THEN Decoded(Text("s"), pos + 1)
    ELSE IF number(text, pos) THEN Decoded(F64(parse_number(At(text, pos))), pos + 1)
    ELSE IF tag(text, pos, "false") THEN Decoded(Bool(FALSE, None), pos + 1)
    ELSE IF tag(text, pos, "true") THEN Decoded(Bool(TRUE, None), pos + 1)
    ELSE Refused(NotImplemented, pos)

\* load_data: one expression from the start of the text.
load_data(data) == expr(data, 1)

\* The text as the string it is.
RECURSIVE to_string(_)
to_string(text) == IF text = <<>> THEN "" ELSE text[1] \o to_string(Tail(text))

\* load_data__string: the text was popped; the Result of load_data
\* is pushed.
load_data__string(stk, ext, hp, v) ==
    LET x == resolve(stk, v)
        r == load_data(x.v)
    IN IF r.ok THEN Done(Append(stk, ResultOk(r.val)), ext, hp)
       ELSE Done(Append(stk, ResultErr(Text("Error loading data from string "
                                            \o to_string(x.v) \o ":\n" \o r.err))),
                 ext, hp)

\* ------------------------------------------------------------------ data runtime
\* Runtime 1 holds the text in local 1; slot 2 is the pushed Result.
\* Elements of an array or link literal.
MaxElems == 2

\* The texts of seq one behind the other, sep between two of them.
RECURSIVE Join(_, _)
Join(seq, sep) ==
    IF seq = <<>> THEN <<>>
    ELSE IF Len(seq) = 1 THEN seq[1]
    ELSE seq[1] \o sep \o Join(Tail(seq), sep)

\* A vector literal of n components 1..n, sep between two components and
\* close before the closing bracket.
VecText(n, sep, close) ==
    <<"(">> \o Join([i \in 1..n |-> <<At(<<"1", "2", "3", "4">>, i)>>], sep) \o close \o <<")">>

Shapes == 2..4
Seps == {<<",">>, <<",", Blank>>}
Closes == {<<>>, <<Blank>>}

\* What an array or a link literal is made of, and what decoding it alone
\* gives: a value, or the error in err.  The last one is no link element.
Elems ==
    << [text |-> <<"1">>, err |-> "", val |-> F64(1)],
       [text |-> <<"true">>, err |-> "", val |-> Bool(TRUE, None)],
       [text |-> <<Quoted>>, err |-> "", val |-> Text("s")],
       [text |-> <<"x">>, err |-> NotImplemented, val |-> F64(0)],
       [text |-> <<"[", "2", "]">>, err |-> "", val |-> Array(<<F64(2)>>)],
       [text |-> <<"(", ")">>, err |-> ExpectedX, val |-> F64(0)],
       [text |-> VecText(2, <<",">>, <<>>), err |-> "", val |-> Vec4(1, 2, 0, 0)],
       [text |-> VecText(4, <<",">>, <<>>), err |-> "", val |-> Vec4(1, 2, 3, 4)] >>

LinkKinds == 1..(Len(Elems) - 1)
\* The element lists of a literal.
Lists(kinds) == UNION {[1..n -> kinds] : n \in 0..MaxElems}

Texts(els) == [i \in DOMAIN els |-> Elems[els[i]].text]
ArrayText(els) == <<"[">> \o Join(Texts(els), <<",", Blank>>) \o <<"]">>
LinkText(els) == <<"link", Blank, "{">> \o Join(Texts(els), <<Blank>>) \o <<"}">>

\* The texts the script decodes.
DataTexts ==
    {VecText(n, sep, close) : n \in Shapes, sep \in Seps, close \in Closes}
    \cup {<<"[">> \o VecText(n, <<",">>, <<>>) \o <<",", "5", "]">> : n \in Shapes}
    \cup {ArrayText(els) : els \in Lists(DOMAIN Elems)}
    \cup {LinkText(els) : els \in Lists(LinkKinds)}
    \cup {<<"{", "k", ":", "1", ",", "k", ":", "2", "}">>, <<"{", "k", "1", "}">>,
          <<"link", "1">>}

AtData == status[A] = "run" /\ Len(stack[A]) = 1

DoLoadDataString(v) ==
    AtData /\ WrapApply(load_data__string(stack[A], <<>>, heap, v))

\* The interpreter pops the Result.
DropData ==
    /\ status[A] = "run" /\ Len(stack[A]) = 2
    /\ WrapApply(Done(SubSeq(stack[A], 1, 1), <<>>, heap))

InitData ==
    /\ \E text \in DataTexts :
           stack = [t \in Threads |-> IF t = A THEN <<Text(text)>> ELSE <<>>]
    /\ heap = [i \in Ids |-> <<>>]
    /\ status = [t \in Threads |-> "run"]
    /\ err = [t \in Threads |-> NoErr]
    /\ Quiet

NextData ==
    \/ \E v \in UnwrapOperands : DoLoadDataString(v)
    \/ DropData

SpecData == InitData /\ [][NextData]_vars

\* ------------------------------------------------------------------ claims: data literals
\* The first element of els that fails: its decoding, or the push of its
\* value onto the link; 0 when none does.
Fails(els, i) == Elems[els[i]].err # "" \/ Elems[els[i]].val.t \notin {"bool", "f64", "text"}
FirstFailing(els) ==
    IF \E i \in DOMAIN els : Fails(els, i)
    THEN CHOOSE i \in DOMAIN els : Fails(els, i) /\ \A j \in 1..(i - 1) : ~Fails(els, j)
    ELSE 0

\* The position behind element k of the link literal of els.
BehindElem(els, k) == Len(<<"link", Blank, "{">> \o Join(SubSeq(Texts(els), 1, k), <<Blank>>)) + 1

\* C25: decoding a link literal pushes the decoded elements in textual
\* order onto an empty Link; at the first element whose decoding or push
\* fails it stops with that element's error: the reader is not moved past
\* that element, and no Link is returned.
C25_LinkLiteral ==
    AtData =>
        \A els \in Lists(LinkKinds) :
            stack[A][1] = Text(LinkText(els)) =>
                LET r == load_data(LinkText(els))
                    k == FirstFailing(els)
                IN IF k = 0
                   THEN r = Decoded(Link([i \in DOMAIN els |-> Elems[els[i]].val]),
                                    Len(LinkText(els)) + 1)
                   ELSE /\ ~r.ok
                        /\ r.err = IF Elems[els[k]].err # "" THEN Elems[els[k]].err
                                   ELSE LinkRefuses
                        /\ r.pos <= BehindElem(els, k)

\* A link literal whose first element the link refuses and whose second
\* does not decode was decoded: the Result holds the refusal.
C25_Witness ==
    /\ status[A] = "run" /\ Len(stack[A]) = 2
    /\ stack[A][1] = Text(<<"link", Blank, "{", "[", "2", "]", Blank, "x", "}">>)
    /\ stack[A][2] = ResultErr(Text("Error loading data from string link {[2] x}:\n"
                                    \o LinkRefuses))

\* text holds the tokens of lit from position k on.
HoldsAt(text, lit, k) ==
    k + Len(lit) - 1 <= Len(text) /\ SubSeq(text, k, k + Len(lit) - 1) = lit

\* C30: after vec4 decoded a vector literal of two, three or four
\* components the reader is just behind the closing bracket, and the
\* components read are the literal's; so the array of a vector literal and
\* a 5 decodes to the vector and the 5.
C30_VectorConsumed ==
    AtData =>
        LET text == stack[A][1].v
        IN \A n \in Shapes, sep \in Seps, close \in Closes : \A k \in 1..2 :
               LET lit == VecText(n, sep, close)
                   vec == Vec4(1, 2, IF n >= 3 THEN 3 ELSE 0, IF n = 4 THEN 4 ELSE 0)
               IN /\ HoldsAt(text, lit, k) =>
                         vec4(text, k + 1) = Decoded(vec, k + Len(lit))
                  /\ text = <<"[">> \o lit \o <<",", "5", "]">> =>
                         load_data(text) = Decoded(Array(<<vec, F64(5)>>), Len(text) + 1)

\* ------------------------------------------------------------------ claims: the synthesized call
\* The function runtime t runs: the one of its top frame, main without one.
Running_fn(t) == IF call_stack[t] = <<>> THEN "main" ELSE Top(t).f

\* C26: the call that call or call_ret synthesizes carries the source text
\* of the function at the top of the caller's call stack at the dispatch,
\* not that of the function it calls, and the empty range at offset 0.
C26_CallerSource ==
    [][\A t \in Threads :
           Pushed(t) =>
               LET fr == call_stack'[t][Len(call_stack'[t])]
               IN /\ fr.custom_source = "fn " \o Running_fn(t)
                  /\ fr.custom_source # Source(fr.f)
                  /\ fr.source_range = [offset |-> 0, length |-> 0]]_vars

\* main has dispatched leaf by call_ret: the frame of leaf carries the
\* source of main.
C26_Witness ==
    \E t \in Threads :
        /\ Len(call_stack[t]) = 1
        /\ call_stack[t][1].f = "leaf" /\ call_stack[t][1].kind = "call_ret"
        /\ call_stack[t][1].custom_source = "fn main"
        /\ call_stack[t][1].source_range = empty(0)

\* C27: call and call_ret validate their operands alike: for every module
\* value, name value and argument value a script can pass, also when more
\* than one of them is of the wrong variant, both pass or both fail with the
\* same message and the same argument index.
C27_SameValidation ==
    \A t \in Threads :
        Idle(t) =>
            \A call_module \in ModuleOperands(t), fn_name \in NameOperands(t),
               args \in ArgsOperands(t) :
                begin(stack[t], "call", call_module, fn_name, args)
                    = begin(stack[t], "call_ret", call_module, fn_name, args)

\* C28: the lookup of call and call_ret takes loaded functions only: a name
\* that resolves to an intrinsic, to an external function with or without
\* a return value, or to nothing fails as not found, whatever the number
\* and kind of the arguments, and pushes no frame.
C28_LoadedOnly ==
    [][\A t \in Threads :
           (AtLookup(t) /\ find_function(pend[t].name).k
                               \in {"Intrinsic", "ExternalVoid", "ExternalReturn", "None"})
           => /\ FailedWith(t, Error(CouldNotFind, -1, pend[t].name, 0, 0))
              /\ ~Pushed(t)]_vars

\* A dispatch of an external function that returns a value failed as not
\* found: the runtime is left without a frame.
C28_Witness ==
    /\ status[1] = "err" /\ err[1] = Error(CouldNotFind, -1, "ext_ret", 0, 0)
    /\ call_stack[1] = <<>> /\ guard[ModuleHandle] # 1

\* ------------------------------------------------------------------ arrays of numbers
\* The script of the array runtime that puts numbers only into its arrays.
NumberItems == {F64(2), F64(3)}

NextNumbers ==
    \/ \E v \in Targets, item \in NumberItems : DoPush(v, item)
    \/ \E v \in Targets, item \in NumberItems : DoPushRef(v, item)
    \/ \E v \in Targets : \E index \in Indices(v) : \E item \in NumberItems : DoInsert(v, index, item)
    \/ \E v \in Targets : \E index \in Indices(v) : \E item \in NumberItems : DoInsertRef(v, index, item)
    \/ \E v \in Targets : DoPop(v)
    \/ \E v \in Targets : \E index \in Indices(v) : DoRemove(v, index)
    \/ \E v \in Targets : DoReverse(v)
    \/ \E v \in Targets : DoClear(v)
    \/ \E v \in Targets : \E i \in Indices(v), j \in Indices(v) : DoSwap(v, i, j)
    \/ \E i \in Locals, j \in Locals : Assign(i, j)
    \/ Drop

SpecNumbers == InitArr /\ [][NextNumbers]_vars

\* ------------------------------------------------------------------ claims: failing mutators
\* The outcome, when it is an Err, left every slot reading as before.
Untouched(o) ==
    Failure(o) =>
        /\ Len(o.stack) = Len(stack[A])
        /\ \A k \in DOMAIN stack[A] : DeepRead(o.stack[k], o.heap) = ReadSlot(k)

\* C29: a mutator that returns an error leaves the arrays as they were:
\* whatever the target, the item and the indices, after an Err of push,
\* push_ref, insert, insert_ref, pop, remove, reverse, clear or swap every
\* slot reads as before, the referenced array and the slots that share its
\* storage among them.  And insert at the length appends, where remove at
\* the length is out of bounds.
C29_FailureLeavesArrays ==
    Ready(A) =>
        \A v \in Targets :
            /\ \A item \in ValueItems :
                   /\ Untouched(push(stack[A], Ext(A), heap, v, item))
                   /\ \A index \in Indices(v) :
                          Untouched(insert(stack[A], Ext(A), heap, v, index, item))
            /\ \A item \in Items :
                   /\ Untouched(push_ref(stack[A], Ext(A), heap, v, item))
                   /\ \A index \in Indices(v) :
                          Untouched(insert_ref(stack[A], Ext(A), heap, v, index, item))
            /\ Untouched(pop(stack[A], Ext(A), heap, v))
            /\ Untouched(reverse(stack[A], Ext(A), heap, v))
            /\ Untouched(clear(stack[A], Ext(A), heap, v))
            /\ \A index \in Indices(v) :
                   Untouched(remove(stack[A], Ext(A), heap, v, index))
            /\ \A i \in Indices(v), j \in Indices(v) :
                   Untouched(swap(stack[A], Ext(A), heap, v, i, j))
            /\ IsArrayRef(stack[A], v) =>
                   LET old == heap[stack[A][v.v].v]
                       o == insert(stack[A], Ext(A), heap, v, F64(Len(old)), F64(2))
                   IN /\ o.err = "" /\ o.fault = ""
                      /\ o.heap[o.stack[v.v].v] = Append(old, F64(2))
                      /\ FailsWith(remove(stack[A], Ext(A), heap, v, F64(Len(old))),
                                   IndexOutOfBounds, -1)

\* A mutator was refused for its index: the run ended on that error.
C29_Witness ==
    /\ status[A] = "err" /\ err[A].msg = IndexOutOfBounds
====
